---- MODULE Spec2Model ----
(***************************************************************************)
(* Term resolution journey of the concept-discovery frontend.              *)
(*                                                                         *)
(* Two orchestrators exist in the sources: the flat MainContainer          *)
(* (frontend/src/pages/MainContainer.tsx) and the step-wizard              *)
(* MainContainer (unnamed/part_013) that drives the Stepper                *)
(* (frontend/src/components/Stepper.tsx) and StepSynonyms                  *)
(* (unnamed/part_010).  Every async handler is split at its await: the     *)
(* synchronous prefix is one action, the continuation (try body or catch,  *)
(* then finally) is another one that consumes the request from `inflight`. *)
(* React commits the state updates of one synchronous run together, so    *)
(* each action is atomic.                                                  *)
(***************************************************************************)
EXTENDS Integers, Sequences, FiniteSets, TLC

VARIABLES
    searchResults,    \* MainContainer state
    synonyms,
    conceptTable,
    loading,
    conceptLoading,
    initialLoading,
    synonymLoading,
    error,
    hasSearched,
    selectedTerm,
    selectedSynonym,  \* flat MainContainer only
    lastSearchTerm,
    currentStep,      \* step-wizard MainContainer only
    stepperStep,      \* Stepper.currentStep while the Stepper is mounted
    searchId,         \* StepSynonyms prop searchId
    inflight,         \* requests issued and not yet answered, oldest first
    page,             \* per browser session: the source its LanguageSelector is built from
    languageSelector, \* per browser session: the state of its LanguageSelector
    createLanguageDialog, \* per browser session: the state of its CreateLanguageDialog
    registry,         \* the languages the server holds, in the order /api/languages lists them
    dashboard,        \* per mounted Dashboard: its variant and state
    expander,         \* the Synonym Expander behind /api/synonyms
    sorting,          \* ConceptTable state sorting
    forcedLanguageSelector  \* languageSelected, the dialog's choice, i18n.language

vars == <<searchResults, synonyms, conceptTable, loading,
          conceptLoading, initialLoading, synonymLoading, error, hasSearched,
          selectedTerm, selectedSynonym, lastSearchTerm, currentStep,
          stepperStep, searchId, inflight, page, languageSelector,
          createLanguageDialog, registry, dashboard, expander, sorting,
          forcedLanguageSelector>>

\* the state of the dashboard, of the synonym expander, of the sortable table
\* and of the forced language dialog
views == <<dashboard, expander, sorting, forcedLanguageSelector>>

\* the state of the components that are not part of the search journey
others == <<page, languageSelector, createLanguageDialog, registry, views>>

mcVars == <<searchResults, synonyms, conceptTable, loading, conceptLoading,
            initialLoading, synonymLoading, error, hasSearched, selectedTerm,
            selectedSynonym, lastSearchTerm>>

----------------------------------------------------------------------------
(* Bounds *)

MaxInFlight == 2      \* requests that may be pending at once
MaxCandidates == 1    \* senses in one /api/search response
MaxSynonyms == 1      \* synonyms in one /api/synonyms response
MaxConcepts == 1      \* rows in one /api/concept_lookup response

----------------------------------------------------------------------------
(* Values *)

\* null and a non-null value of a nullable state
None == <<>>
Some(x) == <<x>>

\* terms the user may type: empty, whitespace only, a word
Terms == { <<>>, <<" ">>, <<"c", "o", "l", "d">> }

\* String.prototype.trim on a term
RECURSIVE TrimLeft(_)
TrimLeft(s) == IF s # <<>> /\ Head(s) = " " THEN TrimLeft(Tail(s)) ELSE s

RECURSIVE TrimRight(_)
TrimRight(s) ==
    IF s # <<>> /\ s[Len(s)] = " " THEN TrimRight(SubSeq(s, 1, Len(s) - 1))
    ELSE s

Trim(s) == TrimRight(TrimLeft(s))

IsBlank(s) == Trim(s) = <<>>

\* JavaScript truthiness of a string
Truthy(s) == s # <<>>

\* the shapes of a rejected axios call that handleError tells apart
ErrorShapes == {"response", "request", "setup"}

\* the i-th sense returned for a query, the k-th synonym of a sense,
\* the j-th concept row of a synonym
Candidate(t, i) == [query |-> t, sense |-> i]
Synonym(c, k) == [of |-> c, k |-> k]
Concept(s, j) == [synonym |-> s, concept_id |-> j]

SearchResponse(t, n) == [i \in 1..n |-> Candidate(t, i)]
SynonymsResponse(c, n) == [k \in 1..n |-> Synonym(c, k)]
ConceptsResponse(s, n) == [j \in 1..n |-> Concept(s, j)]

Range(s) == { s[i] : i \in 1..Len(s) }

Remove(s, i) == SubSeq(s, 1, i - 1) \o SubSeq(s, i + 1, Len(s))

----------------------------------------------------------------------------
(* Flat MainContainer: frontend/src/pages/MainContainer.tsx *)

\* what the return statement renders
View ==
    IF ~hasSearched THEN "initial"
    ELSE IF initialLoading \/ synonymLoading \/ conceptLoading THEN "loading"
    ELSE IF loading THEN "blank"
    ELSE IF error # None THEN "error"
    ELSE IF selectedTerm # None THEN "disambiguationScreen"
    ELSE IF Len(searchResults) > 0 THEN "results"
    ELSE "noResults"

\* what renderConceptTable renders below the disambiguation screen
ConceptTableView ==
    IF conceptLoading THEN "skeleton"
    ELSE IF Len(conceptTable) = 0 /\ selectedSynonym # None THEN "noConceptsFound"
    ELSE IF Len(conceptTable) = 0 THEN "nothing"
    ELSE "table"

handleError(shape) ==
    error' = Some(CASE shape = "response" -> "serverError"
                    [] shape = "request" -> "noResponseError"
                    [] OTHER -> "genericError")

handleSearch(term) ==
    /\ Len(inflight) < MaxInFlight
    /\ initialLoading' = TRUE
    /\ loading' = TRUE
    /\ error' = None
    /\ lastSearchTerm' = term
    /\ hasSearched' = TRUE
    /\ selectedTerm' = None
    /\ selectedSynonym' = None
    /\ conceptTable' = <<>>
    /\ inflight' = Append(inflight, [kind |-> "search", term |-> term, attempt |-> 1])
    /\ UNCHANGED <<searchResults, synonyms, conceptLoading, synonymLoading>>

handleSearch_then(i, n) ==
    /\ inflight[i].kind = "search"
    /\ searchResults' = SearchResponse(inflight[i].term, n)
    /\ loading' = FALSE
    /\ initialLoading' = FALSE
    /\ inflight' = Remove(inflight, i)
    /\ UNCHANGED <<synonyms, conceptTable, conceptLoading, synonymLoading, error,
                   hasSearched, selectedTerm, selectedSynonym, lastSearchTerm>>

handleSearch_catch(i, shape) ==
    /\ inflight[i].kind = "search"
    /\ handleError(shape)
    /\ loading' = FALSE
    /\ initialLoading' = FALSE
    /\ inflight' = Remove(inflight, i)
    /\ UNCHANGED <<searchResults, synonyms, conceptTable, conceptLoading,
                   synonymLoading, hasSearched, selectedTerm, selectedSynonym,
                   lastSearchTerm>>

handleDisambiguationSelect(term) ==
    /\ Len(inflight) < MaxInFlight
    /\ synonymLoading' = TRUE
    /\ loading' = TRUE
    /\ error' = None
    /\ selectedTerm' = Some(term)
    /\ selectedSynonym' = None
    /\ conceptTable' = <<>>
    /\ inflight' = Append(inflight, [kind |-> "synonyms", term |-> term, attempt |-> 1])
    /\ UNCHANGED <<searchResults, synonyms, conceptLoading, initialLoading,
                   hasSearched, lastSearchTerm>>

handleDisambiguationSelect_then(i, n) ==
    /\ inflight[i].kind = "synonyms"
    /\ synonyms' = SynonymsResponse(inflight[i].term, n)
    /\ loading' = FALSE
    /\ synonymLoading' = FALSE
    /\ inflight' = Remove(inflight, i)
    /\ UNCHANGED <<searchResults, conceptTable, conceptLoading, initialLoading,
                   error, hasSearched, selectedTerm, selectedSynonym, lastSearchTerm>>

handleDisambiguationSelect_catch(i, shape) ==
    /\ inflight[i].kind = "synonyms"
    /\ handleError(shape)
    /\ loading' = FALSE
    /\ synonymLoading' = FALSE
    /\ inflight' = Remove(inflight, i)
    /\ UNCHANGED <<searchResults, synonyms, conceptTable, conceptLoading,
                   initialLoading, hasSearched, selectedTerm, selectedSynonym,
                   lastSearchTerm>>

handleSynonymClick(synonym) ==
    /\ Len(inflight) < MaxInFlight
    /\ conceptLoading' = TRUE
    /\ error' = None
    /\ selectedSynonym' = Some(synonym)
    /\ inflight' = Append(inflight, [kind |-> "concept_lookup", term |-> synonym, attempt |-> 1])
    /\ UNCHANGED <<searchResults, synonyms, conceptTable, loading, initialLoading,
                   synonymLoading, hasSearched, selectedTerm, lastSearchTerm>>

handleSynonymClick_then(i, n) ==
    /\ inflight[i].kind = "concept_lookup"
    /\ conceptTable' = IF n > 0 THEN ConceptsResponse(inflight[i].term, n) ELSE <<>>
    /\ conceptLoading' = FALSE
    /\ inflight' = Remove(inflight, i)
    /\ UNCHANGED <<searchResults, synonyms, loading, initialLoading, synonymLoading,
                   error, hasSearched, selectedTerm, selectedSynonym, lastSearchTerm>>

\* handleSynonymClick whose finally block does not lower conceptLoading
handleSynonymClick_catch_stillLoading(i, shape) ==
    /\ inflight[i].kind = "concept_lookup"
    /\ handleError(shape)
    /\ inflight' = Remove(inflight, i)
    /\ UNCHANGED <<searchResults, synonyms, conceptTable, loading, conceptLoading,
                   initialLoading, synonymLoading, hasSearched, selectedTerm,
                   selectedSynonym, lastSearchTerm>>

handleSynonymClick_catch(i, shape) ==
    /\ inflight[i].kind = "concept_lookup"
    /\ handleError(shape)
    /\ conceptLoading' = FALSE
    /\ inflight' = Remove(inflight, i)
    /\ UNCHANGED <<searchResults, synonyms, conceptTable, loading, initialLoading,
                   synonymLoading, hasSearched, selectedTerm, selectedSynonym,
                   lastSearchTerm>>

handleBack ==
    /\ selectedTerm' = None
    /\ selectedSynonym' = None
    /\ conceptTable' = <<>>
    /\ UNCHANGED <<searchResults, synonyms, loading, conceptLoading, initialLoading,
                   synonymLoading, error, hasSearched, lastSearchTerm, inflight>>

handleRetry ==
    IF Truthy(lastSearchTerm) THEN handleSearch(lastSearchTerm)
    ELSE UNCHANGED <<mcVars, inflight>>

wizardOnly == <<currentStep, stepperStep, searchId>>

\* SearchBox: Enter or a click on the icon hands the text of the input to
\* onSearch
SearchBox_handleSearch ==
    /\ \E searchTerm \in Terms : handleSearch(searchTerm)
    /\ UNCHANGED <<wizardOnly, others>>

ClickSearchResult ==
    /\ View = "results"
    /\ \E c \in Range(searchResults) : handleDisambiguationSelect(c)
    /\ UNCHANGED <<wizardOnly, others>>

ClickSynonym ==
    /\ View = "disambiguationScreen"
    /\ \E s \in Range(synonyms) : handleSynonymClick(s)
    /\ UNCHANGED <<wizardOnly, others>>

ClickBack ==
    /\ View = "disambiguationScreen"
    /\ handleBack
    /\ UNCHANGED <<wizardOnly, others>>

ClickRetry ==
    /\ View = "error"
    /\ handleRetry
    /\ UNCHANGED <<wizardOnly, others>>

SearchResponds ==
    /\ \E i \in 1..Len(inflight) : \E n \in 0..MaxCandidates : handleSearch_then(i, n)
    /\ UNCHANGED <<wizardOnly, others>>

SearchFails ==
    /\ \E i \in 1..Len(inflight) : \E e \in ErrorShapes : handleSearch_catch(i, e)
    /\ UNCHANGED <<wizardOnly, others>>

SynonymsRespond ==
    /\ \E i \in 1..Len(inflight) : \E n \in 0..MaxSynonyms :
          handleDisambiguationSelect_then(i, n)
    /\ UNCHANGED <<wizardOnly, others>>

SynonymsFail ==
    /\ \E i \in 1..Len(inflight) : \E e \in ErrorShapes :
          handleDisambiguationSelect_catch(i, e)
    /\ UNCHANGED <<wizardOnly, others>>

ConceptsRespond ==
    /\ \E i \in 1..Len(inflight) : \E n \in 0..MaxConcepts : handleSynonymClick_then(i, n)
    /\ UNCHANGED <<wizardOnly, others>>

ConceptsFail ==
    /\ \E i \in 1..Len(inflight) : \E e \in ErrorShapes : handleSynonymClick_catch(i, e)
    /\ UNCHANGED <<wizardOnly, others>>

\* no browser session shows a LanguageSelector
NoSessions ==
    /\ page = <<>>
    /\ languageSelector = <<>>
    /\ createLanguageDialog = <<>>
    /\ registry = <<>>

\* no Dashboard is mounted, the expander has seen no request, no column sorts
NoViews ==
    /\ dashboard = <<>>
    /\ expander = <<>>
    /\ sorting = <<>>
    /\ forcedLanguageSelector = <<>>

\* the MainContainer after construction
NoJourney ==
    /\ searchResults = <<>>
    /\ synonyms = <<>>
    /\ conceptTable = <<>>
    /\ loading = FALSE
    /\ conceptLoading = FALSE
    /\ initialLoading = FALSE
    /\ synonymLoading = FALSE
    /\ error = None
    /\ hasSearched = FALSE
    /\ selectedTerm = None
    /\ selectedSynonym = None
    /\ lastSearchTerm = <<>>
    /\ currentStep = 0
    /\ stepperStep = None
    /\ searchId = None

Init ==
    /\ NoJourney
    /\ inflight = <<>>
    /\ NoSessions
    /\ NoViews

Next ==
    \/ SearchBox_handleSearch
    \/ ClickSearchResult
    \/ ClickSynonym
    \/ ClickBack
    \/ ClickRetry
    \/ SearchResponds
    \/ SearchFails
    \/ SynonymsRespond
    \/ SynonymsFail
    \/ ConceptsRespond
    \/ ConceptsFail

Spec == Init /\ [][Next]_vars

----------------------------------------------------------------------------
(* Step-wizard MainContainer: unnamed/part_013 *)

\* steps.length of the steps array handed to the Stepper
NumSteps == 3

\* what the return statement of the step-wizard MainContainer renders
WizardView ==
    IF ~hasSearched THEN "initial"
    ELSE IF initialLoading \/ synonymLoading \/ conceptLoading THEN "loading"
    ELSE IF loading THEN "blank"
    ELSE IF error # None THEN "error"
    ELSE IF Len(searchResults) > 0 THEN "stepper"
    ELSE "noResults"

\* a Stepper rendered without initialStep: useState(0)
Mount_atFirstStep(next) ==
    stepperStep' = IF WizardView' = "stepper"
                   THEN (IF WizardView = "stepper" THEN next ELSE Some(0))
                   ELSE None

\* Stepper's useState(initialStep): a Stepper that stays mounted keeps its own
\* step (next), one that mounts in this render starts at MainContainer's
\* currentStep, and an unmounted one has no state.
Mount(next) ==
    stepperStep' = IF WizardView' = "stepper"
                   THEN (IF WizardView = "stepper" THEN next ELSE Some(currentStep'))
                   ELSE None

Wizard_handleError(shape) ==
    error' = Some(CASE shape = "response" -> "serverError"
                    [] shape = "request" -> "noResponseError"
                    [] OTHER -> "genericError")

Wizard_handleSearch(term) ==
    /\ Len(inflight) < MaxInFlight
    /\ initialLoading' = TRUE
    /\ loading' = TRUE
    /\ error' = None
    /\ lastSearchTerm' = term
    /\ hasSearched' = TRUE
    /\ selectedTerm' = None
    /\ conceptTable' = <<>>
    /\ currentStep' = 0
    /\ inflight' = Append(inflight, [kind |-> "search", term |-> term, attempt |-> 1])
    /\ UNCHANGED <<searchResults, synonyms, conceptLoading, synonymLoading,
                   selectedSynonym>>

Wizard_handleSearch_then(i, n) ==
    /\ inflight[i].kind = "search"
    /\ searchResults' = SearchResponse(inflight[i].term, n)
    /\ loading' = FALSE
    /\ initialLoading' = FALSE
    /\ inflight' = Remove(inflight, i)
    /\ UNCHANGED <<synonyms, conceptTable, conceptLoading, synonymLoading, error,
                   hasSearched, selectedTerm, selectedSynonym, lastSearchTerm,
                   currentStep>>

Wizard_handleSearch_catch(i, shape) ==
    /\ inflight[i].kind = "search"
    /\ Wizard_handleError(shape)
    /\ loading' = FALSE
    /\ initialLoading' = FALSE
    /\ inflight' = Remove(inflight, i)
    /\ UNCHANGED <<searchResults, synonyms, conceptTable, conceptLoading,
                   synonymLoading, hasSearched, selectedTerm, selectedSynonym,
                   lastSearchTerm, currentStep>>

Wizard_handleDisambiguationSelect(term) ==
    /\ Len(inflight) < MaxInFlight
    /\ synonymLoading' = TRUE
    /\ loading' = TRUE
    /\ error' = None
    /\ selectedTerm' = Some(term)
    /\ conceptTable' = <<>>
    /\ inflight' = Append(inflight, [kind |-> "synonyms", term |-> term, attempt |-> 1])
    /\ UNCHANGED <<searchResults, synonyms, conceptLoading, initialLoading,
                   hasSearched, selectedSynonym, lastSearchTerm, currentStep>>

Wizard_handleDisambiguationSelect_then(i, n) ==
    /\ inflight[i].kind = "synonyms"
    /\ synonyms' = SynonymsResponse(inflight[i].term, n)
    /\ currentStep' = 1
    /\ loading' = FALSE
    /\ synonymLoading' = FALSE
    /\ inflight' = Remove(inflight, i)
    /\ UNCHANGED <<searchResults, conceptTable, conceptLoading, initialLoading,
                   error, hasSearched, selectedTerm, selectedSynonym, lastSearchTerm>>

Wizard_handleDisambiguationSelect_catch(i, shape) ==
    /\ inflight[i].kind = "synonyms"
    /\ Wizard_handleError(shape)
    /\ loading' = FALSE
    /\ synonymLoading' = FALSE
    /\ inflight' = Remove(inflight, i)
    /\ UNCHANGED <<searchResults, synonyms, conceptTable, conceptLoading,
                   initialLoading, hasSearched, selectedTerm, selectedSynonym,
                   lastSearchTerm, currentStep>>

\* The synchronous prefix of handleSynonymClick.  It is entered from a click
\* (rest = inflight) or from the continuation of StepSynonyms' recording
\* request (rest = inflight without that request).
Wizard_handleSynonymClick(synonym, rest) ==
    /\ conceptLoading' = TRUE
    /\ error' = None
    /\ inflight' = Append(rest, [kind |-> "concept_lookup", term |-> synonym, attempt |-> 1])
    /\ UNCHANGED <<searchResults, synonyms, conceptTable, loading, initialLoading,
                   synonymLoading, hasSearched, selectedTerm, selectedSynonym,
                   lastSearchTerm, currentStep>>

Wizard_handleSynonymClick_then(i, n) ==
    /\ inflight[i].kind = "concept_lookup"
    /\ IF n > 0
       THEN /\ conceptTable' = ConceptsResponse(inflight[i].term, n)
            /\ currentStep' = 2
       ELSE /\ conceptTable' = <<>>
            /\ UNCHANGED currentStep
    /\ conceptLoading' = FALSE
    /\ inflight' = Remove(inflight, i)
    /\ UNCHANGED <<searchResults, synonyms, loading, initialLoading, synonymLoading,
                   error, hasSearched, selectedTerm, selectedSynonym, lastSearchTerm>>

Wizard_handleSynonymClick_catch(i, shape) ==
    /\ inflight[i].kind = "concept_lookup"
    /\ Wizard_handleError(shape)
    /\ conceptLoading' = FALSE
    /\ inflight' = Remove(inflight, i)
    /\ UNCHANGED <<searchResults, synonyms, conceptTable, loading, initialLoading,
                   synonymLoading, hasSearched, selectedTerm, selectedSynonym,
                   lastSearchTerm, currentStep>>

handleStepChange(step) == currentStep' = step

Wizard_handleRetry ==
    IF Truthy(lastSearchTerm) THEN Wizard_handleSearch(lastSearchTerm)
    ELSE UNCHANGED <<mcVars, currentStep, inflight>>

----------------------------------------------------------------------------
(* Stepper: frontend/src/components/Stepper.tsx *)

isLastStep == stepperStep = Some(NumSteps - 1)
isFirstStep == stepperStep = Some(0)

\* handleNext, handleBack and handleStepClick give the Stepper's next step;
\* they call onStepChange exactly when that step differs from doing nothing
\* handleNext without its test of the last step
Stepper_handleNext_unbounded ==
    /\ WizardView = "stepper"
    /\ stepperStep' = Some(stepperStep[1] + 1)
    /\ handleStepChange(stepperStep[1] + 1)
    /\ UNCHANGED <<mcVars, searchId, inflight, others>>

Stepper_handleNext ==
    /\ WizardView = "stepper"
    /\ IF isLastStep
       THEN UNCHANGED <<stepperStep, currentStep>>
       ELSE /\ stepperStep' = Some(stepperStep[1] + 1)
            /\ handleStepChange(stepperStep[1] + 1)
    /\ UNCHANGED <<mcVars, searchId, inflight, others>>

Stepper_handleBack ==
    /\ WizardView = "stepper"
    /\ ~isFirstStep
    /\ stepperStep' = Some(stepperStep[1] - 1)
    /\ handleStepChange(stepperStep[1] - 1)
    /\ UNCHANGED <<mcVars, searchId, inflight, others>>

\* handleStepClick without its test index <= currentStep + 1
Stepper_handleStepClick_anywhere(index) ==
    /\ WizardView = "stepper"
    /\ stepperStep' = Some(index)
    /\ handleStepChange(index)
    /\ UNCHANGED <<mcVars, searchId, inflight, others>>

Stepper_handleStepClick(index) ==
    /\ WizardView = "stepper"
    /\ IF index <= stepperStep[1] + 1
       THEN /\ stepperStep' = Some(index)
            /\ handleStepChange(index)
       ELSE UNCHANGED <<stepperStep, currentStep>>
    /\ UNCHANGED <<mcVars, searchId, inflight, others>>

----------------------------------------------------------------------------
(* StepSynonyms: unnamed/part_010 *)

\* if (searchId): a number is truthy unless it is 0
HasSearchId == searchId # None /\ searchId[1] # 0

\* A click on a synonym card.  With a search id the handler suspends on the
\* recording request; without one it calls onSynonymClick at once.
StepSynonyms_handleSynonymClick(synonym) ==
    /\ Len(inflight) < MaxInFlight
    /\ IF HasSearchId
       THEN /\ inflight' = Append(inflight, [kind |-> "select_synonym",
                                             search_id |-> searchId[1],
                                             synonym |-> synonym])
            /\ UNCHANGED <<mcVars, currentStep>>
       ELSE Wizard_handleSynonymClick(synonym, inflight)

\* the recording request succeeded: onSynonymClick(synonym)
StepSynonyms_handleSynonymClick_then(i) ==
    /\ inflight[i].kind = "select_synonym"
    /\ Wizard_handleSynonymClick(inflight[i].synonym, Remove(inflight, i))

\* StepSynonyms whose onSynonymClick call sits inside the try block
StepSynonyms_handleSynonymClick_catch_noCall(i) ==
    /\ inflight[i].kind = "select_synonym"
    /\ inflight' = Remove(inflight, i)
    /\ UNCHANGED <<mcVars, currentStep>>

\* the recording request failed: the error is logged, then onSynonymClick(synonym)
StepSynonyms_handleSynonymClick_catch(i) ==
    /\ inflight[i].kind = "select_synonym"
    /\ Wizard_handleSynonymClick(inflight[i].synonym, Remove(inflight, i))

----------------------------------------------------------------------------
(* The step wizard as the user and the network drive it *)

Wizard_SearchBox_handleSearch ==
    /\ \E searchTerm \in Terms : Wizard_handleSearch(searchTerm)
    /\ UNCHANGED <<searchId, others>>
    /\ Mount(stepperStep)

\* the SearchBox of a user who looks up one term
Recorder_SearchBox_handleSearch ==
    /\ Wizard_handleSearch(<<"c", "o", "l", "d">>)
    /\ UNCHANGED <<searchId, others>>
    /\ Mount(stepperStep)

Wizard_ClickSelect ==
    /\ WizardView = "stepper"
    /\ stepperStep = Some(0)
    /\ \E c \in Range(searchResults) : Wizard_handleDisambiguationSelect(c)
    /\ UNCHANGED <<searchId, others>>
    /\ Mount(stepperStep)

Wizard_ClickSynonymCard ==
    /\ WizardView = "stepper"
    /\ stepperStep = Some(1)
    /\ \E s \in Range(synonyms) : StepSynonyms_handleSynonymClick(s)
    /\ UNCHANGED <<searchId, others>>
    /\ Mount(stepperStep)

Wizard_ClickRetry ==
    /\ WizardView = "error"
    /\ Wizard_handleRetry
    /\ UNCHANGED <<searchId, others>>
    /\ Mount(stepperStep)

Wizard_ClickNext == Stepper_handleNext

Wizard_ClickBack == Stepper_handleBack

Wizard_ClickStep == \E index \in 0..(NumSteps - 1) : Stepper_handleStepClick(index)

Wizard_SearchResponds ==
    /\ \E i \in 1..Len(inflight) : \E n \in 0..MaxCandidates :
          Wizard_handleSearch_then(i, n)
    /\ UNCHANGED <<searchId, others>>
    /\ Mount(stepperStep)

Wizard_SearchFails ==
    /\ \E i \in 1..Len(inflight) : \E e \in ErrorShapes :
          Wizard_handleSearch_catch(i, e)
    /\ UNCHANGED <<searchId, others>>
    /\ Mount(stepperStep)

Wizard_SynonymsRespond ==
    /\ \E i \in 1..Len(inflight) : \E n \in 0..MaxSynonyms :
          Wizard_handleDisambiguationSelect_then(i, n)
    /\ UNCHANGED <<searchId, others>>
    /\ Mount(stepperStep)

Wizard_SynonymsFail ==
    /\ \E i \in 1..Len(inflight) : \E e \in ErrorShapes :
          Wizard_handleDisambiguationSelect_catch(i, e)
    /\ UNCHANGED <<searchId, others>>
    /\ Mount(stepperStep)

Wizard_ConceptsRespond ==
    /\ \E i \in 1..Len(inflight) : \E n \in 0..MaxConcepts :
          Wizard_handleSynonymClick_then(i, n)
    /\ UNCHANGED <<searchId, others>>
    /\ Mount(stepperStep)

Wizard_ConceptsFail ==
    /\ \E i \in 1..Len(inflight) : \E e \in ErrorShapes :
          Wizard_handleSynonymClick_catch(i, e)
    /\ UNCHANGED <<searchId, others>>
    /\ Mount(stepperStep)

Wizard_RecordingResponds ==
    /\ \E i \in 1..Len(inflight) : StepSynonyms_handleSynonymClick_then(i)
    /\ UNCHANGED <<searchId, others>>
    /\ Mount(stepperStep)

Wizard_RecordingFails ==
    /\ \E i \in 1..Len(inflight) : StepSynonyms_handleSynonymClick_catch(i)
    /\ UNCHANGED <<searchId, others>>
    /\ Mount(stepperStep)

\* part_013 renders StepSynonyms without a searchId
NextWizard ==
    \/ Wizard_SearchBox_handleSearch
    \/ Wizard_ClickSelect
    \/ Wizard_ClickSynonymCard
    \/ Wizard_ClickRetry
    \/ Wizard_ClickNext
    \/ Wizard_ClickBack
    \/ Wizard_ClickStep
    \/ Wizard_SearchResponds
    \/ Wizard_SearchFails
    \/ Wizard_SynonymsRespond
    \/ Wizard_SynonymsFail
    \/ Wizard_ConceptsRespond
    \/ Wizard_ConceptsFail

SpecWizard == Init /\ [][NextWizard]_vars

\* search ids a parent may hand to StepSynonyms: the falsy and a truthy number
SearchIds == {0, 1}

\* StepSynonyms under a parent that supplies its searchId prop, in the journey
\* of a user who looks up one term
InitRecorder ==
    /\ searchResults = <<>>
    /\ synonyms = <<>>
    /\ conceptTable = <<>>
    /\ loading = FALSE
    /\ conceptLoading = FALSE
    /\ initialLoading = FALSE
    /\ synonymLoading = FALSE
    /\ error = None
    /\ hasSearched = FALSE
    /\ selectedTerm = None
    /\ selectedSynonym = None
    /\ lastSearchTerm = <<>>
    /\ currentStep = 0
    /\ stepperStep = None
    /\ searchId \in {None} \cup { Some(k) : k \in SearchIds }
    /\ inflight = <<>>
    /\ NoSessions
    /\ NoViews

NextRecorder ==
    \/ Recorder_SearchBox_handleSearch
    \/ Wizard_ClickSelect
    \/ Wizard_ClickSynonymCard
    \/ Wizard_ClickRetry
    \/ Wizard_ClickNext
    \/ Wizard_ClickBack
    \/ Wizard_ClickStep
    \/ Wizard_SearchResponds
    \/ Wizard_SearchFails
    \/ Wizard_SynonymsRespond
    \/ Wizard_SynonymsFail
    \/ Wizard_ConceptsRespond
    \/ Wizard_ConceptsFail
    \/ Wizard_RecordingResponds
    \/ Wizard_RecordingFails

SpecRecorder == InitRecorder /\ [][NextRecorder]_vars

----------------------------------------------------------------------------
(* Strings *)

Upper == <<"A", "B", "C", "D", "E", "F", "G", "H", "I", "J", "K", "L", "M",
           "N", "O", "P", "Q", "R", "S", "T", "U", "V", "W", "X", "Y", "Z">>
Lower == <<"a", "b", "c", "d", "e", "f", "g", "h", "i", "j", "k", "l", "m",
           "n", "o", "p", "q", "r", "s", "t", "u", "v", "w", "x", "y", "z">>

\* String.prototype.toLowerCase
toLowerCase(s) ==
    [i \in 1..Len(s) |->
        IF \E k \in 1..Len(Upper) : Upper[k] = s[i]
        THEN Lower[CHOOSE k \in 1..Len(Upper) : Upper[k] = s[i]]
        ELSE s[i]]

\* String.prototype.includes
includes(s, q) ==
    \E i \in 0..(Len(s) - Len(q)) : SubSeq(s, i + 1, i + Len(q)) = q

----------------------------------------------------------------------------
(* The MainContainer of frontend/src/App.tsx, which answers a search itself *)

\* terms typed into the SearchBox of App.tsx
AppTerms == Terms \cup { <<"C", "o", "l", "d">> }

\* the value the simulated API call resolves with
SimulatedResponse_noSeed(term) ==
    [disambiguation |->
        << [term |-> term, definition |-> [about |-> term, specific |-> FALSE],
            category |-> "General Medical Term"],
           [term |-> term \o <<" ", "(", "s", "p", "e", "c", "i", "f", "i", "c", ")">>,
            definition |-> [about |-> term, specific |-> TRUE],
            category |-> "Specific Medical Condition"] >>,
     synonyms |->
        << term \o <<" ", "s", "y", "n", "o", "n", "y", "m", " ", "1">>,
           term \o <<" ", "s", "y", "n", "o", "n", "y", "m", " ", "2">> >>,
     concepts |->
        << [id |-> 1000000 + Len(term), name |-> term, domain |-> "Observation",
            vocabulary |-> "SNOMED", standard |-> "Standard"],
           [id |-> 2000000 + Len(term),
            name |-> term \o <<" ", "r", "e", "l", "a", "t", "e", "d", " ",
                               "c", "o", "n", "c", "e", "p", "t">>,
            domain |-> "Measurement", vocabulary |-> "LOINC",
            standard |-> "Non-Standard"] >>]

SimulatedResponse(term) ==
    [disambiguation |->
        << [term |-> term, definition |-> [about |-> term, specific |-> FALSE],
            category |-> "General Medical Term"],
           [term |-> term \o <<" ", "(", "s", "p", "e", "c", "i", "f", "i", "c", ")">>,
            definition |-> [about |-> term, specific |-> TRUE],
            category |-> "Specific Medical Condition"] >>,
     synonyms |->
        << term,
           term \o <<" ", "s", "y", "n", "o", "n", "y", "m", " ", "1">>,
           term \o <<" ", "s", "y", "n", "o", "n", "y", "m", " ", "2">> >>,
     concepts |->
        << [id |-> 1000000 + Len(term), name |-> term, domain |-> "Observation",
            vocabulary |-> "SNOMED", standard |-> "Standard"],
           [id |-> 2000000 + Len(term),
            name |-> term \o <<" ", "r", "e", "l", "a", "t", "e", "d", " ",
                               "c", "o", "n", "c", "e", "p", "t">>,
            domain |-> "Measurement", vocabulary |-> "LOINC",
            standard |-> "Non-Standard"] >>]

\* the state App.tsx's MainContainer does not have
notApp == <<synonyms, conceptTable, conceptLoading, initialLoading, synonymLoading,
            selectedTerm, selectedSynonym, lastSearchTerm, currentStep,
            stepperStep, searchId, others>>

\* handleSearch up to its await: the one-second timer is started
App_handleSearch(term) ==
    /\ Len(inflight) < MaxInFlight
    /\ loading' = TRUE
    /\ error' = None
    /\ inflight' = Append(inflight, [kind |-> "timer", term |-> term])
    /\ UNCHANGED <<searchResults, hasSearched>>

\* the timer fired: the rest of the try block, then finally.  The promise
\* never rejects, so the catch block has no run.
App_handleSearch_then ==
    /\ inflight # <<>>
    /\ searchResults' = Some(SimulatedResponse(Head(inflight).term))
    /\ hasSearched' = TRUE
    /\ loading' = FALSE
    /\ inflight' = Tail(inflight)
    /\ UNCHANGED error

App_SearchBox_handleSearch ==
    /\ \E searchTerm \in AppTerms : App_handleSearch(searchTerm)
    /\ UNCHANGED notApp

\* timers of equal delay fire in the order they were started
App_TimerFires ==
    /\ App_handleSearch_then
    /\ UNCHANGED notApp

NextApp ==
    \/ App_SearchBox_handleSearch
    \/ App_TimerFires

SpecApp == Init /\ [][NextApp]_vars

----------------------------------------------------------------------------
(* Language selection.  LanguageSelector is the same in                    *)
(* frontend/src/components/ForcedLanguageSelector.tsx, unnamed/part_003 and *)
(* unnamed/part_004; the three differ in how a language is created: a       *)
(* three-step CreateLanguageDialog, a CreateLanguageDialog that has the     *)
(* server infer the language from its name, and an inline form.             *)

Sessions == DOMAIN page

Language(value, label, nativeName) ==
    [value |-> value, label |-> label, nativeName |-> nativeName]

English == Language(<<"e", "n">>, <<"E", "n", "g", "l", "i", "s", "h">>,
                    <<"E", "n", "g", "l", "i", "s", "h">>)
Spanish == Language(<<"e", "s">>, <<"S", "p", "a", "n", "i", "s", "h">>,
                    <<"E", "s", "p", "a", "ñ", "o", "l">>)
French == Language(<<"f", "r">>, <<"F", "r", "e", "n", "c", "h">>,
                   <<"F", "r", "a", "n", "ç", "a", "i", "s">>)

\* the list fetchLanguages falls back to
FallbackLanguages == <<English, Spanish, French>>

\* what the user types into the search input of the selector
SearchQueries == { <<>>, <<"e", "n">> }

\* what the user types into the inputs of a create-language dialog
NameInputs == { <<>>, <<"P">>, <<"P", "o", "l", "i", "s", "h">> }
CodeInputs == { <<>>, <<"p">>, <<"P", "L">> }
NativeNameInputs == { <<>>, <<"P", "o", "l", "s", "k", "i">> }

\* the position of a letter in the alphabet, 0 for any other character
LetterRank(c) ==
    IF \E k \in 1..Len(Lower) : Lower[k] = c
    THEN CHOOSE k \in 1..Len(Lower) : Lower[k] = c
    ELSE 0

\* a comes before b, or equals it, in alphabetic order ignoring case
RECURSIVE AlphabeticLeq(_, _)
AlphabeticLeq(a, b) ==
    IF a = <<>> THEN TRUE
    ELSE IF b = <<>> THEN FALSE
    ELSE LET x == LetterRank(toLowerCase(a)[1])
             y == LetterRank(toLowerCase(b)[1])
         IN  IF x # y THEN x < y ELSE AlphabeticLeq(Tail(a), Tail(b))

\* useMemo filteredLanguages
filteredLanguages(s) ==
    LET query == toLowerCase(languageSelector[s].searchQuery)
        Matches(lang) ==
            \/ includes(toLowerCase(lang.label), query)
            \/ includes(toLowerCase(lang.nativeName), query)
            \/ includes(toLowerCase(lang.value), query)
    IN  SelectSeq(languageSelector[s].languageOptions, Matches)

\* the state of a LanguageSelector after construction
NewSelector ==
    [searchQuery |-> <<>>, languageOptions |-> <<>>, isCreatingLanguage |-> FALSE,
     error |-> None]

\* fetchLanguages up to its await; caller tells the effect at mount from the
\* call at the end of handleSaveNewLanguage
fetchLanguages(s, caller, pending) ==
    inflight' = Append(pending, [kind |-> "languages", session |-> s, caller |-> caller])

setSearchQuery(s, value) ==
    /\ languageSelector' = [languageSelector EXCEPT ![s].searchQuery = value]
    /\ UNCHANGED <<createLanguageDialog, registry, inflight, page>>

handleCreateLanguage(s) ==
    /\ languageSelector' = [languageSelector EXCEPT ![s].isCreatingLanguage = TRUE,
                                                    ![s].error = None]
    /\ UNCHANGED <<createLanguageDialog, registry, inflight, page>>

\* onClose / onOpenChange of the dialog: Cancel, Escape or a click outside
onClose(s) ==
    /\ languageSelector[s].isCreatingLanguage
    /\ languageSelector' = [languageSelector EXCEPT ![s].isCreatingLanguage = FALSE]
    /\ UNCHANGED <<createLanguageDialog, registry, inflight, page>>

----------------------------------------------------------------------------
(* The Language Registry behind /api/languages, /api/language_info and     *)
(* /api/create_language.  The server is not among the sources: this part   *)
(* follows the specification (codes are unique, the list is alphabetic by  *)
(* label, the triple is inferred from the free-text name).                  *)

CodeTaken(code) == \E i \in 1..Len(registry) : registry[i].value = code

InsertByLabel(reg, lang) ==
    LET k == Cardinality({ i \in 1..Len(reg) : AlphabeticLeq(reg[i].label, lang.label) })
    IN  SubSeq(reg, 1, k) \o <<lang>> \o SubSeq(reg, k + 1, Len(reg))

\* the languages the registry holds before any is created
InitialRegistry == <<English, French, Spanish>>

\* the triple inferred from a free-text name
language_info(input_text) ==
    [name |-> input_text,
     code |-> toLowerCase(SubSeq(input_text, 1, 2)),
     nativeName |-> input_text]

\* how POST /api/create_language may answer
CreateOutcomes == {"success", "success_false", "error"}

\* resolve_or_create without the uniqueness check
create_language_unchecked(body, outcome) ==
    CASE outcome = "success" ->
            registry' = InsertByLabel(registry,
                            Language(body.code, body.name, body.native_name))
      [] outcome = "success_false" -> CodeTaken(body.code) /\ UNCHANGED registry
      [] OTHER -> UNCHANGED registry

\* the insertion: a code that is taken is refused, as {success: false} or as an
\* error response; the request may also fail before it reaches the registry
create_language(body, outcome) ==
    CASE outcome = "success" ->
            /\ ~CodeTaken(body.code)
            /\ registry' = InsertByLabel(registry,
                               Language(body.code, body.name, body.native_name))
      [] outcome = "success_false" -> CodeTaken(body.code) /\ UNCHANGED registry
      [] OTHER -> UNCHANGED registry

----------------------------------------------------------------------------
(* CreateLanguageDialog in three steps: ForcedLanguageSelector.tsx *)

NewWizardDialog ==
    [step |-> 1,
     newLanguage |-> [name |-> <<>>, code |-> <<>>, nativeName |-> <<>>],
     errors |-> [name |-> "", code |-> "", nativeName |-> ""]]

validateField(field, value) ==
    CASE field = "name" -> IF Len(value) < 2 THEN "languageNameError" ELSE ""
      [] field = "code" -> IF Len(value) # 2 THEN "languageCodeError" ELSE ""
      [] field = "nativeName" -> IF Len(value) < 2 THEN "nativeNameError" ELSE ""
      [] OTHER -> ""

CreateLanguageDialog_handleChange(s, field, value) ==
    /\ createLanguageDialog' =
          [createLanguageDialog EXCEPT ![s].newLanguage[field] = value,
                                       ![s].errors[field] = validateField(field, value)]
    /\ UNCHANGED <<languageSelector, registry, inflight, page>>

isStepValid(d) ==
    CASE d.step = 1 -> Len(d.newLanguage.name) > 1 /\ d.errors.name = ""
      [] d.step = 2 -> Len(d.newLanguage.code) = 2 /\ d.errors.code = ""
      [] d.step = 3 -> Len(d.newLanguage.nativeName) > 1 /\ d.errors.nativeName = ""
      [] OTHER -> FALSE

\* handleSaveNewLanguage of ForcedLanguageSelector.tsx up to its await
Wizard_handleSaveNewLanguage(s, newLanguage) ==
    /\ Len(inflight) < MaxInFlight
    /\ inflight' = Append(inflight, [kind |-> "create_language", session |-> s,
                                     body |-> [name |-> newLanguage.name,
                                               code |-> newLanguage.code,
                                               native_name |-> newLanguage.nativeName]])
    /\ UNCHANGED <<languageSelector, createLanguageDialog>>

CreateLanguageDialog_handleNext(s) ==
    /\ IF createLanguageDialog[s].step < 3
       THEN /\ createLanguageDialog' =
                  [createLanguageDialog EXCEPT ![s].step = @ + 1]
            /\ UNCHANGED <<languageSelector, inflight>>
       ELSE Wizard_handleSaveNewLanguage(s, createLanguageDialog[s].newLanguage)
    /\ UNCHANGED <<registry, page>>

\* the continuation of handleSaveNewLanguage after the POST was answered
Wizard_handleSaveNewLanguage_then(i, outcome) ==
    LET s == inflight[i].session IN
    /\ inflight[i].kind = "create_language"
    /\ page[s] = "ForcedLanguageSelector.tsx"
    /\ create_language(inflight[i].body, outcome)
    /\ CASE outcome = "success" ->
               /\ languageSelector' =
                     [languageSelector EXCEPT ![s].isCreatingLanguage = FALSE,
                                              ![s].error = None]
               /\ fetchLanguages(s, "save", Remove(inflight, i))
         [] outcome = "success_false" ->
               /\ languageSelector' =
                     [languageSelector EXCEPT ![s].error = Some("failedToCreateLanguage")]
               /\ inflight' = Remove(inflight, i)
         [] OTHER ->
               /\ languageSelector' =
                     [languageSelector EXCEPT ![s].error = Some("errorCreatingLanguage")]
               /\ inflight' = Remove(inflight, i)
    /\ UNCHANGED <<createLanguageDialog, page>>

----------------------------------------------------------------------------
(* LanguageSelector with an inline form: unnamed/part_004 *)

NewFormSelector ==
    [searchQuery |-> <<>>, languageOptions |-> <<>>, isCreatingLanguage |-> FALSE,
     newLanguage |-> [name |-> <<>>, code |-> <<>>, nativeName |-> <<>>],
     error |-> None]

Form_setNewLanguage(s, field, value) ==
    /\ languageSelector' = [languageSelector EXCEPT ![s].newLanguage[field] = value]
    /\ UNCHANGED <<createLanguageDialog, registry, inflight, page>>

\* handleSaveNewLanguage of part_004 without its check of the code's length
Form_handleSaveNewLanguage_anyCode(s) ==
    LET newLanguage == languageSelector[s].newLanguage IN
    /\ IF \/ newLanguage.name = <<>>
          \/ newLanguage.code = <<>>
          \/ newLanguage.nativeName = <<>>
       THEN /\ languageSelector' =
                  [languageSelector EXCEPT ![s].error = Some("allFieldsRequired")]
            /\ UNCHANGED inflight
       ELSE /\ Len(inflight) < MaxInFlight
            /\ inflight' = Append(inflight,
                              [kind |-> "create_language", session |-> s,
                               body |-> [name |-> newLanguage.name,
                                         code |-> newLanguage.code,
                                         native_name |-> newLanguage.nativeName]])
            /\ UNCHANGED languageSelector
    /\ UNCHANGED <<createLanguageDialog, registry, page>>

\* handleSaveNewLanguage of part_004 up to its await
Form_handleSaveNewLanguage(s) ==
    LET newLanguage == languageSelector[s].newLanguage IN
    /\ IF \/ newLanguage.name = <<>>
          \/ newLanguage.code = <<>>
          \/ newLanguage.nativeName = <<>>
       THEN /\ languageSelector' =
                  [languageSelector EXCEPT ![s].error = Some("allFieldsRequired")]
            /\ UNCHANGED inflight
       ELSE IF Len(newLanguage.code) # 2
       THEN /\ languageSelector' =
                  [languageSelector EXCEPT ![s].error = Some("invalidLanguageCode")]
            /\ UNCHANGED inflight
       ELSE /\ Len(inflight) < MaxInFlight
            /\ inflight' = Append(inflight,
                              [kind |-> "create_language", session |-> s,
                               body |-> [name |-> newLanguage.name,
                                         code |-> newLanguage.code,
                                         native_name |-> newLanguage.nativeName]])
            /\ UNCHANGED languageSelector
    /\ UNCHANGED <<createLanguageDialog, registry, page>>

Form_handleSaveNewLanguage_then(i, outcome) ==
    LET s == inflight[i].session IN
    /\ inflight[i].kind = "create_language"
    /\ page[s] = "part_004"
    /\ create_language(inflight[i].body, outcome)
    /\ CASE outcome = "success" ->
               /\ languageSelector' =
                     [languageSelector EXCEPT
                         ![s].isCreatingLanguage = FALSE,
                         ![s].newLanguage =
                             [name |-> <<>>, code |-> <<>>, nativeName |-> <<>>],
                         ![s].error = None]
               /\ fetchLanguages(s, "save", Remove(inflight, i))
         [] outcome = "success_false" ->
               /\ languageSelector' =
                     [languageSelector EXCEPT ![s].error = Some("failedToCreateLanguage")]
               /\ inflight' = Remove(inflight, i)
         [] OTHER ->
               /\ languageSelector' =
                     [languageSelector EXCEPT ![s].error = Some("errorCreatingLanguage")]
               /\ inflight' = Remove(inflight, i)
    /\ UNCHANGED <<createLanguageDialog, page>>

----------------------------------------------------------------------------
(* CreateLanguageDialog that infers the language from its name: unnamed/part_003 *)

NewInferDialog ==
    [newLanguageName |-> <<>>, error |-> "", isLoading |-> FALSE, isSuccess |-> FALSE]

Infer_handleChange(s, value) ==
    /\ createLanguageDialog' =
          [createLanguageDialog EXCEPT
              ![s].newLanguageName = value,
              ![s].error = IF Len(value) < 2 THEN "languageNameError" ELSE ""]
    /\ UNCHANGED <<languageSelector, registry, inflight, page>>

\* handleSave up to the first await of the handleSaveNewLanguage it calls
Infer_handleSave(s) ==
    /\ IF Len(createLanguageDialog[s].newLanguageName) >= 2
       THEN /\ Len(inflight) < MaxInFlight
            /\ createLanguageDialog' =
                  [createLanguageDialog EXCEPT ![s].isLoading = TRUE, ![s].error = ""]
            /\ inflight' = Append(inflight,
                              [kind |-> "language_info", session |-> s,
                               input_text |-> createLanguageDialog[s].newLanguageName])
       ELSE /\ createLanguageDialog' =
                  [createLanguageDialog EXCEPT ![s].error = "languageNameError"]
            /\ UNCHANGED inflight
    /\ UNCHANGED <<languageSelector, registry, page>>

\* handleSaveNewLanguage threw: catch and finally of handleSave
Infer_handleSave_catch(s) ==
    createLanguageDialog' =
        [createLanguageDialog EXCEPT ![s].error = "errorCreatingLanguage",
                                     ![s].isLoading = FALSE]

\* handleSaveNewLanguage returned: rest of the try block and finally of
\* handleSave; the two-second timer is started
Infer_handleSave_then(s, pending) ==
    /\ createLanguageDialog' =
          [createLanguageDialog EXCEPT ![s].isSuccess = TRUE,
                                       ![s].newLanguageName = <<>>,
                                       ![s].isLoading = FALSE]
    /\ inflight' = Append(pending, [kind |-> "reload", session |-> s])

\* /api/language_info answered: the POST is issued with what it returned
Infer_handleSaveNewLanguage_info(i) ==
    LET s == inflight[i].session
        languageInfo == language_info(inflight[i].input_text) IN
    /\ inflight[i].kind = "language_info"
    /\ inflight' = Append(Remove(inflight, i),
                      [kind |-> "create_language", session |-> s,
                       body |-> [name |-> languageInfo.name,
                                 code |-> languageInfo.code,
                                 native_name |-> languageInfo.nativeName]])
    /\ UNCHANGED <<languageSelector, createLanguageDialog, registry, page>>

\* /api/language_info failed
Infer_handleSaveNewLanguage_infoFailed(i) ==
    /\ inflight[i].kind = "language_info"
    /\ Infer_handleSave_catch(inflight[i].session)
    /\ inflight' = Remove(inflight, i)
    /\ UNCHANGED <<languageSelector, registry, page>>

\* the POST was answered
Infer_handleSaveNewLanguage_then(i, outcome) ==
    LET s == inflight[i].session IN
    /\ inflight[i].kind = "create_language"
    /\ page[s] = "part_003"
    /\ create_language(inflight[i].body, outcome)
    /\ IF outcome = "success"
       THEN /\ languageSelector' = [languageSelector EXCEPT ![s].error = None]
            /\ fetchLanguages(s, "save", Remove(inflight, i))
            /\ UNCHANGED createLanguageDialog
       ELSE /\ Infer_handleSave_catch(s)
            /\ inflight' = Remove(inflight, i)
            /\ UNCHANGED languageSelector
    /\ UNCHANGED page

\* the timer fired: setIsSuccess(false) and window.location.reload().  The
\* page is built anew, what the old page was waiting for is dropped, and the
\* effect at mount fetches the languages.
Infer_reload(i) ==
    LET s == inflight[i].session IN
    /\ inflight[i].kind = "reload"
    /\ languageSelector' = [languageSelector EXCEPT ![s] = NewSelector]
    /\ createLanguageDialog' = [createLanguageDialog EXCEPT ![s] = NewInferDialog]
    /\ fetchLanguages(s, "mount",
                      SelectSeq(inflight, LAMBDA r : r.session # s))
    /\ UNCHANGED <<registry, page>>

----------------------------------------------------------------------------
(* fetchLanguages answered *)

fetchLanguages_settled(i, languages) ==
    LET s == inflight[i].session IN
    /\ inflight[i].kind = "languages"
    /\ languageSelector' = [languageSelector EXCEPT ![s].languageOptions = languages]
    /\ IF page[s] = "part_003" /\ inflight[i].caller = "save"
       THEN Infer_handleSave_then(s, Remove(inflight, i))
       ELSE /\ inflight' = Remove(inflight, i)
            /\ UNCHANGED createLanguageDialog
    /\ UNCHANGED <<registry, page>>

fetchLanguages_then(i) == fetchLanguages_settled(i, registry)

fetchLanguages_catch(i) == fetchLanguages_settled(i, FallbackLanguages)

----------------------------------------------------------------------------
(* The language selector as the user and the network drive it *)

Languages_TypeSearchQuery ==
    /\ \E s \in Sessions : \E value \in SearchQueries : setSearchQuery(s, value)
    /\ UNCHANGED <<mcVars, wizardOnly, views>>

Languages_ClickCreateLanguage ==
    /\ \E s \in Sessions : handleCreateLanguage(s)
    /\ UNCHANGED <<mcVars, wizardOnly, views>>

Languages_CloseDialog ==
    /\ \E s \in Sessions : onClose(s)
    /\ UNCHANGED <<mcVars, wizardOnly, views>>

Languages_Fetched ==
    /\ \E i \in 1..Len(inflight) : fetchLanguages_then(i)
    /\ UNCHANGED <<mcVars, wizardOnly, views>>

Languages_FetchFailed ==
    /\ \E i \in 1..Len(inflight) : fetchLanguages_catch(i)
    /\ UNCHANGED <<mcVars, wizardOnly, views>>

\* the input of the step on display; the code input lower-cases what is typed
Wizard_TypeInDialog ==
    /\ \E s \in Sessions :
          /\ page[s] = "ForcedLanguageSelector.tsx"
          /\ languageSelector[s].isCreatingLanguage
          /\ CASE createLanguageDialog[s].step = 1 ->
                     \E value \in NameInputs :
                         CreateLanguageDialog_handleChange(s, "name", value)
               [] createLanguageDialog[s].step = 2 ->
                     \E value \in CodeInputs :
                         CreateLanguageDialog_handleChange(s, "code", toLowerCase(value))
               [] OTHER ->
                     \E value \in NativeNameInputs :
                         CreateLanguageDialog_handleChange(s, "nativeName", value)
    /\ UNCHANGED <<mcVars, wizardOnly, views>>

\* the Next / Save button, disabled unless isStepValid()
Wizard_ClickDialogNext ==
    /\ \E s \in Sessions :
          /\ page[s] = "ForcedLanguageSelector.tsx"
          /\ languageSelector[s].isCreatingLanguage
          /\ isStepValid(createLanguageDialog[s])
          /\ CreateLanguageDialog_handleNext(s)
    /\ UNCHANGED <<mcVars, wizardOnly, views>>

Wizard_CreateAnswered ==
    /\ \E i \in 1..Len(inflight) : \E outcome \in CreateOutcomes :
          Wizard_handleSaveNewLanguage_then(i, outcome)
    /\ UNCHANGED <<mcVars, wizardOnly, views>>

Form_TypeInForm ==
    /\ \E s \in Sessions :
          /\ page[s] = "part_004"
          /\ languageSelector[s].isCreatingLanguage
          /\ \/ \E value \in NameInputs : Form_setNewLanguage(s, "name", value)
             \/ \E value \in CodeInputs : Form_setNewLanguage(s, "code", value)
             \/ \E value \in NativeNameInputs : Form_setNewLanguage(s, "nativeName", value)
    /\ UNCHANGED <<mcVars, wizardOnly, views>>

Form_ClickSave ==
    /\ \E s \in Sessions :
          /\ page[s] = "part_004"
          /\ languageSelector[s].isCreatingLanguage
          /\ Form_handleSaveNewLanguage(s)
    /\ UNCHANGED <<mcVars, wizardOnly, views>>

Form_CreateAnswered ==
    /\ \E i \in 1..Len(inflight) : \E outcome \in CreateOutcomes :
          Form_handleSaveNewLanguage_then(i, outcome)
    /\ UNCHANGED <<mcVars, wizardOnly, views>>

\* the name input, disabled while isLoading or isSuccess
Infer_TypeName ==
    /\ \E s \in Sessions :
          /\ page[s] = "part_003"
          /\ languageSelector[s].isCreatingLanguage
          /\ ~createLanguageDialog[s].isLoading
          /\ ~createLanguageDialog[s].isSuccess
          /\ \E value \in NameInputs : Infer_handleChange(s, value)
    /\ UNCHANGED <<mcVars, wizardOnly, views>>

\* a Save button that is disabled for a name shorter than 2 only
Infer_ClickSave_whilePending ==
    /\ \E s \in Sessions :
          /\ page[s] = "part_003"
          /\ languageSelector[s].isCreatingLanguage
          /\ Len(createLanguageDialog[s].newLanguageName) >= 2
          /\ Infer_handleSave(s)
    /\ UNCHANGED <<mcVars, wizardOnly, views>>

\* the Save button, disabled for a name shorter than 2 and while isLoading or
\* isSuccess
Infer_ClickSave ==
    /\ \E s \in Sessions :
          /\ page[s] = "part_003"
          /\ languageSelector[s].isCreatingLanguage
          /\ Len(createLanguageDialog[s].newLanguageName) >= 2
          /\ ~createLanguageDialog[s].isLoading
          /\ ~createLanguageDialog[s].isSuccess
          /\ Infer_handleSave(s)
    /\ UNCHANGED <<mcVars, wizardOnly, views>>

Infer_InfoAnswered ==
    /\ \E i \in 1..Len(inflight) : Infer_handleSaveNewLanguage_info(i)
    /\ UNCHANGED <<mcVars, wizardOnly, views>>

Infer_InfoFailed ==
    /\ \E i \in 1..Len(inflight) : Infer_handleSaveNewLanguage_infoFailed(i)
    /\ UNCHANGED <<mcVars, wizardOnly, views>>

Infer_CreateAnswered ==
    /\ \E i \in 1..Len(inflight) : \E outcome \in CreateOutcomes :
          Infer_handleSaveNewLanguage_then(i, outcome)
    /\ UNCHANGED <<mcVars, wizardOnly, views>>

Infer_ReloadTimerFires ==
    /\ \E i \in 1..Len(inflight) : Infer_reload(i)
    /\ UNCHANGED <<mcVars, wizardOnly, views>>

\* the sources a session's LanguageSelector may be built from
Pages == {"ForcedLanguageSelector.tsx", "part_003", "part_004"}

\* the components of a page after construction; the effect at mount has
\* called fetchLanguages
NewPage(p) ==
    [selector |-> IF p = "part_004" THEN NewFormSelector ELSE NewSelector,
     dialog |-> CASE p = "ForcedLanguageSelector.tsx" -> NewWizardDialog
                  [] p = "part_003" -> NewInferDialog
                  [] OTHER -> None]

\* one browser session on one of the three pages
InitLanguages ==
    /\ NoJourney
    /\ NoViews
    /\ page \in { <<p>> : p \in Pages }
    /\ languageSelector = <<NewPage(page[1]).selector>>
    /\ createLanguageDialog = <<NewPage(page[1]).dialog>>
    /\ registry = InitialRegistry
    /\ inflight = <<[kind |-> "languages", session |-> 1, caller |-> "mount"]>>

NextLanguages ==
    \/ Languages_TypeSearchQuery
    \/ Languages_ClickCreateLanguage
    \/ Languages_CloseDialog
    \/ Languages_Fetched
    \/ Languages_FetchFailed
    \/ Wizard_TypeInDialog
    \/ Wizard_ClickDialogNext
    \/ Wizard_CreateAnswered
    \/ Form_TypeInForm
    \/ Form_ClickSave
    \/ Form_CreateAnswered
    \/ Infer_TypeName
    \/ Infer_ClickSave
    \/ Infer_InfoAnswered
    \/ Infer_InfoFailed
    \/ Infer_CreateAnswered
    \/ Infer_ReloadTimerFires

SpecLanguages == InitLanguages /\ [][NextLanguages]_vars

\* two browser sessions on the page of unnamed/part_003, creating languages
\* against the one registry
InitConcurrent ==
    /\ NoJourney
    /\ NoViews
    /\ page = <<"part_003", "part_003">>
    /\ languageSelector = <<NewPage("part_003").selector, NewPage("part_003").selector>>
    /\ createLanguageDialog = <<NewPage("part_003").dialog, NewPage("part_003").dialog>>
    /\ registry = InitialRegistry
    /\ inflight = <<[kind |-> "languages", session |-> 1, caller |-> "mount"],
                    [kind |-> "languages", session |-> 2, caller |-> "mount"]>>

NextConcurrent ==
    \/ Languages_ClickCreateLanguage
    \/ Languages_Fetched
    \/ Languages_FetchFailed
    \/ Infer_TypeName
    \/ Infer_ClickSave
    \/ Infer_InfoAnswered
    \/ Infer_InfoFailed
    \/ Infer_CreateAnswered
    \/ Infer_ReloadTimerFires

SpecConcurrent == InitConcurrent /\ [][NextConcurrent]_vars

----------------------------------------------------------------------------
(* Dashboard: frontend/src/components/Dashboard.tsx.  The file holds two   *)
(* Dashboard components, the first from line 34, the second from line 301. *)
(* A map is the sequence of its entries, in the order Object.entries lists *)
(* them; a field the response does not carry is None.                      *)

Optional(S) == {None} \cup { Some(x) : x \in S }

\* what GET /api/metrics may answer with status 200
MetricsResponses ==
    [language_distribution : Optional({ <<>>, << <<"en", 2>> >> }),
     total_searches : Optional({0, 2}),
     search_trend : Optional({ <<>>, << <<"2024-10-01", 2>> >> }),
     common_search_terms : Optional({ <<>>, << <<"cold", 1>>, <<"flu", 2>> >> }),
     concept_lookup_percentage : Optional({0, 50}),
     most_viewed_concepts : Optional({ <<>>, << <<"Cough", 1>>, <<"Fever", 2>> >> })]

Variants == {"Dashboard.tsx:34", "Dashboard.tsx:301"}

NewDashboard(variant) ==
    [variant |-> variant, metricsData |-> None, loading |-> TRUE, error |-> None]

\* value || fallback, for an object (never falsy) or with the fallback 0 (the
\* only falsy number is the fallback itself)
OrElse(value, fallback) ==
    IF value = None THEN fallback ELSE value[1]

\* the object the second Dashboard builds from the response
WithDefaults(data) ==
    [language_distribution |-> Some(OrElse(data.language_distribution, <<>>)),
     total_searches |-> Some(OrElse(data.total_searches, 0)),
     search_trend |-> Some(OrElse(data.search_trend, <<>>)),
     common_search_terms |-> Some(OrElse(data.common_search_terms, <<>>)),
     concept_lookup_percentage |-> Some(OrElse(data.concept_lookup_percentage, 0)),
     most_viewed_concepts |-> Some(OrElse(data.most_viewed_concepts, <<>>))]

\* the try block of fetchData after a response with response.ok, and finally
Dashboard_fetchData_then(i, data) ==
    LET d == inflight[i].dashboard IN
    /\ inflight[i].kind = "metrics"
    /\ dashboard' =
          [dashboard EXCEPT
              ![d].metricsData = IF dashboard[d].variant = "Dashboard.tsx:34"
                                 THEN Some(data)
                                 ELSE Some(WithDefaults(data)),
              ![d].loading = FALSE]
    /\ inflight' = Remove(inflight, i)

\* fetchData threw (response.ok false, fetch rejected, body not JSON): the
\* first Dashboard logs, the second one also calls setError; then finally
Dashboard_fetchData_catch(i, message) ==
    LET d == inflight[i].dashboard IN
    /\ inflight[i].kind = "metrics"
    /\ dashboard' =
          [dashboard EXCEPT
              ![d].error = IF dashboard[d].variant = "Dashboard.tsx:34"
                           THEN None
                           ELSE Some(message),
              ![d].loading = FALSE]
    /\ inflight' = Remove(inflight, i)

\* entries sorted by descending value, equal values in their order
RECURSIVE SortByValueDesc(_)
SortByValueDesc(entries) ==
    IF entries = <<>> THEN <<>>
    ELSE LET rest == SortByValueDesc(Tail(entries))
             k == Cardinality({ j \in 1..Len(rest) : rest[j][2] > Head(entries)[2] })
         IN  SubSeq(rest, 1, k) \o <<Head(entries)>> \o SubSeq(rest, k + 1, Len(rest))

slice(list, from, to) ==
    SubSeq(list, from + 1, IF to < Len(list) THEN to ELSE Len(list))

\* the render of the first Dashboard dereferences these fields of metricsData
Dereferenced ==
    {"language_distribution", "search_trend", "common_search_terms",
     "most_viewed_concepts", "concept_lookup_percentage"}

\* what the component returns; "crash" when the render throws a TypeError
DashboardView(d) ==
    CASE d.loading -> "loading"
      [] d.variant = "Dashboard.tsx:301" /\ d.error # None -> "error"
      [] d.metricsData = None -> "failedToLoad"
      [] d.variant = "Dashboard.tsx:34" /\ (\E f \in Dereferenced : d.metricsData[1][f] = None) -> "crash"
      [] OTHER -> "data"

\* the number and the chart data of the data view
TotalSearchesShown(d) == d.metricsData[1].total_searches
languageData(d) == d.metricsData[1].language_distribution[1]
searchTrendData(d) == d.metricsData[1].search_trend[1]
commonTermsData(d) ==
    IF d.variant = "Dashboard.tsx:34"
    THEN d.metricsData[1].common_search_terms[1]
    ELSE slice(SortByValueDesc(d.metricsData[1].common_search_terms[1]), 0, 10)
conceptData(d) == slice(SortByValueDesc(d.metricsData[1].most_viewed_concepts[1]), 0, 10)

Dashboard_MetricsAnswered ==
    /\ \E i \in 1..Len(inflight) : \E data \in MetricsResponses :
          Dashboard_fetchData_then(i, data)
    /\ UNCHANGED <<mcVars, wizardOnly, page, languageSelector, createLanguageDialog,
                   registry, expander, sorting,
                   forcedLanguageSelector>>

Dashboard_MetricsNotOk ==
    /\ \E i \in 1..Len(inflight) : Dashboard_fetchData_catch(i, "Server error")
    /\ UNCHANGED <<mcVars, wizardOnly, page, languageSelector, createLanguageDialog,
                   registry, expander, sorting,
                   forcedLanguageSelector>>

Dashboard_MetricsFailed ==
    /\ \E i \in 1..Len(inflight) : Dashboard_fetchData_catch(i, "Failed to fetch")
    /\ UNCHANGED <<mcVars, wizardOnly, page, languageSelector, createLanguageDialog,
                   registry, expander, sorting,
                   forcedLanguageSelector>>

\* one Dashboard of either variant after its first render: the effect has
\* called fetchData
InitDashboard ==
    /\ NoJourney
    /\ NoSessions
    /\ expander = <<>>
    /\ sorting = <<>>
    /\ forcedLanguageSelector = <<>>
    /\ dashboard \in { <<NewDashboard(v)>> : v \in Variants }
    /\ inflight = <<[kind |-> "metrics", dashboard |-> 1]>>

NextDashboard ==
    \/ Dashboard_MetricsAnswered
    \/ Dashboard_MetricsNotOk
    \/ Dashboard_MetricsFailed

SpecDashboard == InitDashboard /\ [][NextDashboard]_vars

----------------------------------------------------------------------------
(* The Synonym Expander behind GET /api/synonyms.  The server is not among *)
(* the sources: this part follows the specification (results memoized per  *)
(* key for a time window, at most one concurrent inference per key).       *)
(* Session 1 is the flat MainContainer; session 2 is another browser whose *)
(* MainContainer is seen through the request it sends.                     *)

\* the keys (term, context, language) of an expansion: the senses a search may
\* offer, in the one language of the page
ExpandKeys == { Candidate(t, i) : t \in { u \in Terms : ~IsBlank(u) }, i \in 1..MaxCandidates }

ExpanderSessions == {1, 2}

\* the request of a session as the server holds it
Held(key, state, list) == Some([key |-> key, state |-> state, synonyms |-> list])

NewExpander ==
    [requests |-> [s \in ExpanderSessions |-> None],
     running |-> [k \in ExpandKeys |-> 0],
     memo |-> [k \in ExpandKeys |-> None]]

\* expand without the registry of in-flight inferences: every request that
\* misses the memo starts an inference
expand_unshared(s, key) ==
    IF expander.memo[key] # None
    THEN expander' = [expander EXCEPT
                         !.requests[s] = Held(key, "ready", expander.memo[key][1])]
    ELSE expander' = [expander EXCEPT
                         !.requests[s] = Held(key, "waiting", <<>>),
                         !.running[key] = @ + 1]

\* expand(term, context, language) as the server receives it: answered from
\* the memo, joined to the inference in flight for the key, or starting one
expand(s, key) ==
    IF expander.memo[key] # None
    THEN expander' = [expander EXCEPT
                         !.requests[s] = Held(key, "ready", expander.memo[key][1])]
    ELSE IF expander.running[key] > 0
    THEN expander' = [expander EXCEPT !.requests[s] = Held(key, "waiting", <<>>)]
    ELSE expander' = [expander EXCEPT
                         !.requests[s] = Held(key, "waiting", <<>>),
                         !.running[key] = 1]

\* the requests waiting for the key are settled
Settle(requests, key, state, list) ==
    [s \in ExpanderSessions |->
        IF requests[s] # None /\ requests[s][1].key = key /\ requests[s][1].state = "waiting"
        THEN Held(key, state, list)
        ELSE requests[s]]

\* an upstream inference for the key returned n synonyms
Expander_inferred(key, n) ==
    /\ expander.running[key] > 0
    /\ expander' = [expander EXCEPT
                       !.running[key] = @ - 1,
                       !.memo[key] = Some(SynonymsResponse(key, n)),
                       !.requests = Settle(@, key, "ready", SynonymsResponse(key, n))]

\* an upstream inference for the key failed: InferenceUnavailable
Expander_unavailable(key) ==
    /\ expander.running[key] > 0
    /\ expander' = [expander EXCEPT
                       !.running[key] = @ - 1,
                       !.requests = Settle(@, key, "failed", <<>>)]

\* the memoization window of the key ends
Expander_expire(key) ==
    /\ expander.memo[key] # None
    /\ expander' = [expander EXCEPT !.memo[key] = None]

expanderFrame == <<wizardOnly, page, languageSelector, createLanguageDialog,
                   registry, dashboard, sorting,
                   forcedLanguageSelector>>

\* session 1 searches a term that is not blank, once nothing is pending
Expander_SearchBox_handleSearch ==
    /\ inflight = <<>>
    /\ \E searchTerm \in { t \in Terms : ~IsBlank(t) } : handleSearch(searchTerm)
    /\ UNCHANGED <<wizardOnly, others>>

\* session 1 clicks a sense: handleDisambiguationSelect, and the server
\* receives the request
Expander_ClickSearchResult ==
    /\ View = "results"
    /\ expander.requests[1] = None
    /\ \E c \in Range(searchResults) : handleDisambiguationSelect(c) /\ expand(1, c)
    /\ UNCHANGED expanderFrame

\* session 2 does the same in its own browser
Expander_PeerClickSearchResult ==
    /\ expander.requests[2] = None
    /\ \E c \in ExpandKeys : expand(2, c)
    /\ UNCHANGED <<mcVars, inflight, expanderFrame>>

Expander_Inferred ==
    /\ \E key \in ExpandKeys : \E n \in 0..MaxSynonyms : Expander_inferred(key, n)
    /\ UNCHANGED <<mcVars, inflight, expanderFrame>>

Expander_Unavailable ==
    /\ \E key \in ExpandKeys : Expander_unavailable(key)
    /\ UNCHANGED <<mcVars, inflight, expanderFrame>>

Expander_Expire ==
    /\ \E key \in ExpandKeys : Expander_expire(key)
    /\ UNCHANGED <<mcVars, inflight, expanderFrame>>

\* the answer reaches session 1: the continuation of handleDisambiguationSelect
Expander_SynonymsRespond ==
    /\ expander.requests[1] # None
    /\ expander.requests[1][1].state = "ready"
    /\ \E i \in 1..Len(inflight) :
          handleDisambiguationSelect_then(i, Len(expander.requests[1][1].synonyms))
    /\ expander' = [expander EXCEPT !.requests[1] = None]
    /\ UNCHANGED expanderFrame

Expander_SynonymsFail ==
    /\ expander.requests[1] # None
    /\ expander.requests[1][1].state = "failed"
    /\ \E i \in 1..Len(inflight) : \E e \in ErrorShapes :
          handleDisambiguationSelect_catch(i, e)
    /\ expander' = [expander EXCEPT !.requests[1] = None]
    /\ UNCHANGED expanderFrame

\* the answer reaches session 2
Expander_PeerAnswered ==
    /\ expander.requests[2] # None
    /\ expander.requests[2][1].state # "waiting"
    /\ expander' = [expander EXCEPT !.requests[2] = None]
    /\ UNCHANGED <<mcVars, inflight, expanderFrame>>

InitExpander ==
    /\ NoJourney
    /\ NoSessions
    /\ dashboard = <<>>
    /\ sorting = <<>>
    /\ forcedLanguageSelector = <<>>
    /\ expander = NewExpander
    /\ inflight = <<>>

NextExpander ==
    \/ Expander_SearchBox_handleSearch
    \/ SearchResponds
    \/ ClickBack
    \/ Expander_ClickSearchResult
    \/ Expander_PeerClickSearchResult
    \/ Expander_Inferred
    \/ Expander_Unavailable
    \/ Expander_Expire
    \/ Expander_SynonymsRespond
    \/ Expander_SynonymsFail
    \/ Expander_PeerAnswered

SpecExpander == InitExpander /\ [][NextExpander]_vars

----------------------------------------------------------------------------
(* The concept tables: frontend/src/components/steps/StepTableResults.tsx  *)
(* and frontend/src/components/ConceptTable.tsx.  The rows are those of    *)
(* /api/concept_lookup; the Concept Resolver that ranks them is not among  *)
(* the sources and follows the specification.                              *)

ConceptRow(concept_id, name, domain, vocabulary, standard_concept, score, exact) ==
    [concept_id |-> concept_id, name |-> name, domain |-> domain,
     vocabulary |-> vocabulary, standard_concept |-> standard_concept,
     score |-> score, exact |-> exact]

\* the concepts of the Vocabulary Store that match the synonym "cold", with the
\* similarity score of each and whether its name matches exactly
Vocabulary ==
    { ConceptRow(1, <<"F", "e", "v", "e", "r">>, <<"C", "o", "n", "d", "i", "t", "i", "o", "n">>, <<"S", "N", "O", "M", "E", "D">>, <<"N", "o", "n", "-", "S", "t", "a", "n", "d", "a", "r", "d">>, 9, FALSE),
      ConceptRow(2, <<"C", "o", "u", "g", "h">>, <<"C", "o", "n", "d", "i", "t", "i", "o", "n">>, <<"S", "N", "O", "M", "E", "D">>, <<"S", "t", "a", "n", "d", "a", "r", "d">>, 7, FALSE),
      ConceptRow(3, <<"c", "o", "l", "d">>, <<"O", "b", "s", "e", "r", "v", "a", "t", "i", "o", "n">>, <<"L", "O", "I", "N", "C">>, <<"S", "t", "a", "n", "d", "a", "r", "d">>, 5, TRUE),
      ConceptRow(4, <<"A", "c", "h", "e">>, <<"O", "b", "s", "e", "r", "v", "a", "t", "i", "o", "n">>, <<"S", "N", "O", "M", "E", "D">>, <<"S", "t", "a", "n", "d", "a", "r", "d">>, 7, FALSE) }

\* Standard with an exact name match, Standard, Non-Standard
Tier(c) ==
    IF c.standard_concept # <<"S", "t", "a", "n", "d", "a", "r", "d">> THEN 3 ELSE IF c.exact THEN 1 ELSE 2

\* a ranks before b
RankBefore(a, b) ==
    \/ Tier(a) < Tier(b)
    \/ Tier(a) = Tier(b) /\ a.score > b.score
    \/ Tier(a) = Tier(b) /\ a.score = b.score /\ a.concept_id < b.concept_id

\* resolve: the matching concepts in ranking order
RECURSIVE resolve(_)
resolve(concepts) ==
    IF concepts = {} THEN <<>>
    ELSE LET first == CHOOSE c \in concepts :
                          \A d \in concepts \ {c} : RankBefore(c, d)
         IN  <<first>> \o resolve(concepts \ {first})

\* the responses /api/concept_lookup may give
LookupResponses == { resolve(S) : S \in SUBSET Vocabulary }

\* the columns of ConceptTable, all with enableSorting
Columns == {"concept_id", "name", "domain", "vocabulary", "standard_concept"}

\* StepTableResults with the rows in reverse
StepTableResults_rows_reversed(rows) ==
    [i \in 1..Len(rows) |-> rows[Len(rows) + 1 - i]]

\* FullTable and SimpleTable of StepTableResults: conceptTable.map
StepTableResults_rows(rows) ==
    [i \in 1..Len(rows) |-> rows[i]]

\* the value of a column sorts before the other: numbers by size, text in
\* alphabetic order ignoring case
SortsBefore(column, a, b) ==
    IF column = "concept_id" THEN a.concept_id < b.concept_id
    ELSE ~AlphabeticLeq(b[column], a[column])

\* getSortedRowModel: the rows in the order of the sorted column, rows with
\* equal values in the order of data
RECURSIVE getSortedRowModel(_, _)
getSortedRowModel(rows, sort) ==
    IF rows = <<>> THEN <<>>
    ELSE LET rest == getSortedRowModel(Tail(rows), sort)
             Precedes(r) == IF sort.desc THEN SortsBefore(sort.id, Head(rows), r)
                            ELSE SortsBefore(sort.id, r, Head(rows))
             k == Cardinality({ j \in 1..Len(rest) : Precedes(rest[j]) })
         IN  SubSeq(rest, 1, k) \o <<Head(rows)>> \o SubSeq(rest, k + 1, Len(rest))

\* table.getRowModel().rows of ConceptTable
ConceptTable_rows(data, sort) ==
    IF sort = <<>> THEN data ELSE getSortedRowModel(data, sort[1])

\* header.column.getToggleSortingHandler(): first click sorts (text ascending,
\* numbers descending), the second reverses, the third removes the sorting
getToggleSortingHandler(column) ==
    LET descFirst == column = "concept_id" IN
    /\ sorting' =
          IF sorting = <<>> \/ sorting[1].id # column
          THEN <<[id |-> column, desc |-> descFirst]>>
          ELSE IF sorting[1].desc = descFirst
          THEN <<[id |-> column, desc |-> ~descFirst]>>
          ELSE <<>>
    /\ UNCHANGED conceptTable

tableFrame == <<searchResults, synonyms, loading, conceptLoading, initialLoading,
                synonymLoading, error, hasSearched, selectedTerm, selectedSynonym,
                lastSearchTerm, wizardOnly, inflight, page, languageSelector,
                createLanguageDialog, registry, dashboard, expander,
                forcedLanguageSelector>>

ConceptTable_ClickHeader ==
    /\ conceptTable # <<>>
    /\ \E column \in Columns : getToggleSortingHandler(column)
    /\ UNCHANGED tableFrame

\* another synonym was looked up: renderConceptTable showed the skeleton while
\* conceptLoading, so ConceptTable is mounted anew with the rows of the answer
ConceptTable_NewData ==
    /\ \E rows \in LookupResponses : conceptTable' = rows
    /\ sorting' = <<>>
    /\ UNCHANGED tableFrame

\* the tables as they show the rows of one answered lookup
InitTable ==
    /\ searchResults = <<>>
    /\ synonyms = <<>>
    /\ conceptTable \in LookupResponses
    /\ loading = FALSE
    /\ conceptLoading = FALSE
    /\ initialLoading = FALSE
    /\ synonymLoading = FALSE
    /\ error = None
    /\ hasSearched = TRUE
    /\ selectedTerm = Some(Candidate(<<"c", "o", "l", "d">>, 1))
    /\ selectedSynonym = Some(Synonym(Candidate(<<"c", "o", "l", "d">>, 1), 1))
    /\ lastSearchTerm = <<"c", "o", "l", "d">>
    /\ currentStep = 0
    /\ stepperStep = None
    /\ searchId = None
    /\ inflight = <<>>
    /\ NoSessions
    /\ dashboard = <<>>
    /\ expander = <<>>
    /\ sorting = <<>>
    /\ forcedLanguageSelector = <<>>

NextTable ==
    \/ ConceptTable_ClickHeader
    \/ ConceptTable_NewData

SpecTable == InitTable /\ [][NextTable]_vars

----------------------------------------------------------------------------
(* The flat MainContainer under searches for two different words: the      *)
(* SearchBox stays on the page while a request is pending, so a second     *)
(* search can be submitted before the first is answered.                   *)

OverlapTerms == { <<"c", "o", "l", "d">>, <<"f", "l", "u">> }

Overlap_SearchBox_handleSearch ==
    /\ \E searchTerm \in OverlapTerms : handleSearch(searchTerm)
    /\ UNCHANGED <<wizardOnly, others>>

NextOverlap ==
    \/ Overlap_SearchBox_handleSearch
    \/ ClickSearchResult
    \/ ClickSynonym
    \/ ClickBack
    \/ ClickRetry
    \/ SearchResponds
    \/ SearchFails
    \/ SynonymsRespond
    \/ SynonymsFail
    \/ ConceptsRespond
    \/ ConceptsFail

SpecOverlap == Init /\ [][NextOverlap]_vars

----------------------------------------------------------------------------
(* Forced language dialog: frontend/src/components/ForcedLanguageSelector.tsx,
   mounted by frontend/src/pages/MainContainer.tsx *)

languageOptions == {"en", "es", "fr", "de", "it", "pt", "ru", "zh"}

\* i18n.language before any choice: a language of the list or another one
DetectedLanguages == {"en", "ja"}

\* useState(false) of MainContainer, useState(null) of the dialog
NewForcedLanguageSelector(lng) ==
    [languageSelected |-> FALSE, selectedLanguage |-> None, language |-> lng]

handleLanguageSelected(f) == [f EXCEPT !.languageSelected = TRUE]

\* i18n.changeLanguage, setSelectedLanguage, then onLanguageSelected
ForcedLanguageSelector_handleLanguageSelect(language) ==
    forcedLanguageSelector' =
        handleLanguageSelected([forcedLanguageSelector EXCEPT
                                    !.language = language,
                                    !.selectedLanguage = Some(language)])

\* an onOpenChange that reports the request to close to the parent
ForcedLanguageSelector_onOpenChange_closes ==
    forcedLanguageSelector' = handleLanguageSelected(forcedLanguageSelector)

\* onOpenChange of the Dialog and of the Drawer: an empty function
ForcedLanguageSelector_onOpenChange ==
    UNCHANGED forcedLanguageSelector

\* {!languageSelected && <ForcedLanguageSelector ... />}
ForcedDialogShown == ~forcedLanguageSelector.languageSelected

forcedFrame == <<mcVars, wizardOnly, inflight, page, languageSelector,
                 createLanguageDialog, registry, dashboard, expander, sorting>>

Forced_ClickLanguage ==
    /\ ForcedDialogShown
    /\ \E option \in languageOptions :
           ForcedLanguageSelector_handleLanguageSelect(option)
    /\ UNCHANGED forcedFrame

\* Escape or a click outside the dialog
Forced_RequestClose ==
    /\ ForcedDialogShown
    /\ ForcedLanguageSelector_onOpenChange
    /\ UNCHANGED forcedFrame

\* the SearchBox under the dialog cannot be used while the modal dialog is open
Forced_SearchBox_handleSearch ==
    /\ ~ForcedDialogShown
    /\ \E searchTerm \in OverlapTerms : handleSearch(searchTerm)
    /\ UNCHANGED <<wizardOnly, others>>

InitForced ==
    /\ NoJourney
    /\ inflight = <<>>
    /\ NoSessions
    /\ dashboard = <<>>
    /\ expander = <<>>
    /\ sorting = <<>>
    /\ forcedLanguageSelector \in
           { NewForcedLanguageSelector(lng) : lng \in DetectedLanguages }

NextForced ==
    \/ Forced_ClickLanguage
    \/ Forced_RequestClose
    \/ Forced_SearchBox_handleSearch
    \/ ClickSearchResult
    \/ ClickSynonym
    \/ ClickBack
    \/ ClickRetry
    \/ SearchResponds
    \/ SearchFails
    \/ SynonymsRespond
    \/ SynonymsFail
    \/ ConceptsRespond
    \/ ConceptsFail

SpecForced == InitForced /\ [][NextForced]_vars

----------------------------------------------------------------------------
(* Properties of the flat MainContainer (Spec) *)

SearchRequest(term) == [kind |-> "search", term |-> term, attempt |-> 1]

\* what activating Retry is claimed to do
RetryReentersSearching ==
    /\ ClickRetry
    /\ inflight' = Append(inflight, SearchRequest(lastSearchTerm))
    /\ error' = None
    /\ selectedTerm' = None
    /\ selectedSynonym' = None
    /\ conceptTable' = <<>>
    /\ View' = "loading"

\* C2: whenever the error view is displayed, activating Retry re-issues the
\* search for the last search term and resets the journey to stage 0 (no
\* selected term, no selected synonym, empty concept table, no error).
C2_RetryReentersSearching ==
    (View = "error" /\ Len(inflight) < MaxInFlight) => ENABLED RetryReentersSearching

\* C3: no /api/search request is ever issued for a term that is blank after
\* trimming.
C3_BlankTermIssuesNoRequest ==
    \A i \in 1..Len(inflight) :
        inflight[i].kind = "search" => ~IsBlank(inflight[i].term)

\* C4: when a stage request fails, error becomes non-null and the loading
\* flags raised by its handler are false again; once no other request is
\* pending the error view (with Retry) is what the user sees.
C4_FailureReachesFailed ==
    [][/\ SearchFails => error' # None /\ ~loading' /\ ~initialLoading'
       /\ SynonymsFail => error' # None /\ ~loading' /\ ~synonymLoading'
       /\ ConceptsFail => error' # None /\ ~conceptLoading'
       /\ (SearchFails \/ SynonymsFail \/ ConceptsFail) /\ inflight' = <<>>
              => View' = "error"]_vars

\* a failed request has just put the journey into the error view
C4_Witness ==
    /\ View = "error"
    /\ inflight = <<>>
    /\ selectedSynonym # None

\* the step answers request i and no other pending request
Answers(i) ==
    /\ inflight' = Remove(inflight, i)
    /\ \A k \in 1..Len(inflight) : k # i => inflight' # Remove(inflight, k)

\* C9: once a newer search has superseded a pending request, the late answer
\* to that request no longer changes the journey state.
C9_SupersededResponseIgnored ==
    [][\A i \in 1..Len(inflight) :
          (Answers(i) /\ \E j \in (i + 1)..Len(inflight) : inflight[j].kind = "search")
          => UNCHANGED mcVars]_vars

\* C10: an error is surfaced to the user only by a request that had been
\* retried; the failure of a first attempt is not shown straight away.
C10_ErrorOnlyAfterRetries ==
    [][(error = None /\ error' # None)
          => \E i \in 1..Len(inflight) :
                 inflight' = Remove(inflight, i) /\ inflight[i].attempt > 1]_vars

\* the step is the failure of pending request i
FailureOf(i) ==
    /\ UNCHANGED <<wizardOnly, others>>
    /\ \E e \in ErrorShapes :
          \/ handleSearch_catch(i, e)
          \/ handleDisambiguationSelect_catch(i, e)
          \/ handleSynonymClick_catch(i, e)

\* Retry issues request r again
RetryReissues(r) ==
    /\ ClickRetry
    /\ inflight' = Append(inflight, r)

\* C11: after the failure of a stage request (search, synonym expansion or
\* concept resolution) the state identifies the failed stage well enough for
\* Retry to issue that stage's request again.  Stated for the journey of the
\* last search term, when that term is not empty and no other request is
\* pending.
C11_RetryResumesFailedStage ==
    [][\A i \in 1..Len(inflight) : \A r \in {inflight[i]} :
          (/\ FailureOf(i)
           /\ inflight' = <<>>
           /\ Truthy(lastSearchTerm)
           /\ r.kind = "search" => r.term = lastSearchTerm)
              => (ENABLED RetryReissues(r))']_vars

\* C12: a search for a non-blank term that completes without error leaves the
\* user, once nothing is pending, either with a non-empty candidate list or
\* with the explicit 'no results' message.
C12_SearchYieldsCandidatesOrNoResults ==
    [][\A i \in 1..Len(inflight) : \A n \in 0..MaxCandidates :
          (/\ handleSearch_then(i, n)
           /\ UNCHANGED <<wizardOnly, others>>
           /\ ~IsBlank(inflight[i].term)
           /\ inflight' = <<>>)
              => IF n > 0
                 THEN View' = "results" /\ Len(searchResults') > 0
                 ELSE View' = "noResults"]_vars

----------------------------------------------------------------------------
(* Properties of the step wizard (SpecWizard) *)

\* C1: the synonyms step is displayed only with a selected candidate, and the
\* results step only when a synonym of the selected candidate's expansion can
\* have been clicked (a candidate is selected and the synonym list is its
\* expansion).
C1_StagesGatedOnSelection ==
    /\ stepperStep = Some(1) => selectedTerm # None
    /\ stepperStep = Some(2) =>
          /\ selectedTerm # None
          /\ Len(synonyms) > 0
          /\ \A s \in Range(synonyms) : s.of = selectedTerm[1]

\* StepTableResults shows its 'no concepts found' message
Wizard_NoConceptsFoundShown ==
    /\ WizardView = "stepper"
    /\ stepperStep = Some(NumSteps - 1)
    /\ Len(conceptTable) = 0

\* C5: a concept lookup that succeeds with an empty list leaves error null and
\* the concept table empty, and the user is shown the 'no concepts found'
\* result.
C5_EmptyLookupShowsNoConceptsFound ==
    [][(\E i \in 1..Len(inflight) : Wizard_handleSynonymClick_then(i, 0))
          => /\ conceptTable' = <<>>
             /\ error' = None
             /\ Wizard_NoConceptsFoundShown']_vars

\* C8: every click on a synonym card issues one select_synonym request that
\* carries a search id.
C8_SelectionRecordedWithSearchId ==
    [][Wizard_ClickSynonymCard
          => \E i \in 1..Len(inflight') :
                 /\ inflight'[i].kind = "select_synonym"
                 /\ inflight'[i].search_id \in SearchIds
                 /\ inflight = Remove(inflight', i)]_vars

----------------------------------------------------------------------------
(* Properties of StepSynonyms (SpecRecorder) *)

\* the number of pending concept lookups, and of pending recordings, for s
Lookups(seq, s) ==
    Cardinality({ i \in 1..Len(seq) : seq[i].kind = "concept_lookup" /\ seq[i].term = s })

Recordings(seq, s) ==
    Cardinality({ i \in 1..Len(seq) : seq[i].kind = "select_synonym" /\ seq[i].synonym = s })

\* the synonyms that some pending request is about
Pending(seq) ==
    { seq[i].synonym : i \in { j \in 1..Len(seq) : seq[j].kind = "select_synonym" } }

\* C6: onSynonymClick(synonym) is invoked exactly once per click: not when the
\* recording request is issued, once when that request succeeds or fails, and
\* once at the click itself when there is no search id; the invocation leaves
\* error null, also after a failed recording.
C6_RecordingNeverFailsPipeline ==
    [][/\ \A s \in Pending(inflight') :
             Recordings(inflight', s) > Recordings(inflight, s)
                 => Lookups(inflight', s) = Lookups(inflight, s) /\ error' = error
       /\ \A s \in Pending(inflight) :
             Recordings(inflight', s) < Recordings(inflight, s)
                 => /\ Recordings(inflight', s) = Recordings(inflight, s) - 1
                    /\ Lookups(inflight', s) = Lookups(inflight, s) + 1
                    /\ error' = None
       /\ (Wizard_ClickSynonymCard /\ ~HasSearchId)
             => /\ \E s \in Range(synonyms) :
                       Lookups(inflight', s) = Lookups(inflight, s) + 1
                /\ Len(inflight') = Len(inflight) + 1
                /\ error' = None]_vars

\* a recording request has ended and the lookup it was holding back is pending
C6_Witness ==
    /\ HasSearchId
    /\ \E i \in 1..Len(inflight) : inflight[i].kind = "concept_lookup"

\* C7: the concept lookup for a clicked synonym is started in the click itself,
\* without waiting for the recording request.
C7_LookupStartedWithoutWaiting ==
    [][\A s \in Pending(inflight') :
          Recordings(inflight', s) > Recordings(inflight, s)
              => Lookups(inflight', s) = Lookups(inflight, s) + 1]_vars

----------------------------------------------------------------------------
(* Properties of App.tsx's MainContainer (SpecApp) *)

\* no two entries of the list are equal ignoring case
CaseInsensitivelyDistinct(list) ==
    \A i, j \in 1..Len(list) :
        toLowerCase(list[i]) = toLowerCase(list[j]) => i = j

----------------------------------------------------------------------------
(* Properties of the language selectors (SpecLanguages) *)

CreateRequests == { i \in 1..Len(inflight) : inflight[i].kind = "create_language" }

\* C16: whichever create-language dialog issues it, a POST /api/create_language
\* carries a code of exactly two characters, a non-empty name and a non-empty
\* native name.
C16_CreateRequestsAreValid ==
    \A i \in CreateRequests :
        /\ Len(inflight[i].body.code) = 2
        /\ inflight[i].body.name # <<>>
        /\ inflight[i].body.native_name # <<>>

\* a creation request is on its way
C16_Witness == CreateRequests # {}

\* the message a session shows for a failed creation
CreationError(s) ==
    IF page[s] = "part_003" THEN createLanguageDialog[s].error # ""
    ELSE languageSelector[s].error # None

\* the user changes what decides the code of the next request: the code input
\* of step 2, the code input of the form, the name the code is inferred from
ChangeCode(s) ==
    /\ languageSelector[s].isCreatingLanguage
    /\ CASE page[s] = "ForcedLanguageSelector.tsx" ->
                /\ createLanguageDialog[s].step = 2
                /\ \E value \in CodeInputs :
                      CreateLanguageDialog_handleChange(s, "code", toLowerCase(value))
          [] page[s] = "part_004" ->
                \E value \in CodeInputs : Form_setNewLanguage(s, "code", value)
          [] OTHER ->
                /\ ~createLanguageDialog[s].isLoading
                /\ ~createLanguageDialog[s].isSuccess
                /\ \E value \in NameInputs : Infer_handleChange(s, value)
    /\ UNCHANGED <<mcVars, wizardOnly, views>>

\* POST /api/create_language of request i was refused or failed
CreationRefused(i) ==
    /\ inflight[i].kind = "create_language"
    /\ \E outcome \in {"success_false", "error"} :
          \/ Wizard_handleSaveNewLanguage_then(i, outcome)
          \/ Form_handleSaveNewLanguage_then(i, outcome)
          \/ Infer_handleSaveNewLanguage_then(i, outcome)
    /\ UNCHANGED <<mcVars, wizardOnly, views>>

\* C15: when create_language fails or reports success = false, the create
\* dialog (open when the answer arrives) stays open with an error message, the language list is unchanged, and
\* the user can change the input, the 2-letter code included, to submit again.
C15_ConflictIsRecoverable ==
    [][\A i \in 1..Len(inflight) : \A s \in {inflight[i].session} :
          (CreationRefused(i) /\ languageSelector[s].isCreatingLanguage)
              => /\ languageSelector'[s].isCreatingLanguage
                 /\ CreationError(s)'
                 /\ registry' = registry
                 /\ languageSelector'[s].languageOptions = languageSelector[s].languageOptions
                 /\ (ENABLED ChangeCode(s))']_vars

\* the labels of a list are in alphabetic order
AlphabeticByLabel(list) ==
    \A i, j \in 1..Len(list) : i < j => AlphabeticLeq(list[i].label, list[j].label)

\* C17: the language list offered to the user is in alphabetic order of the
\* labels, whether it was fetched or is the fallback list, and also after
\* filtering by the search query.
C17_OfferedListIsAlphabetic ==
    \A s \in Sessions : /\ AlphabeticByLabel(languageSelector[s].languageOptions)
                        /\ AlphabeticByLabel(filteredLanguages(s))

----------------------------------------------------------------------------
(* Properties of the registry under two sessions (SpecConcurrent) *)

\* how many languages of the list carry the code
Occurrences(code) == Cardinality({ i \in 1..Len(registry) : registry[i].value = code })

\* the creation a session started has completed: its dialog shows the success
Completed(s) == createLanguageDialog[s].isSuccess

\* C14: once a session's creation of "Polish" has completed, the list holds
\* the inferred code exactly once, and no code is ever listed twice, also when
\* two sessions run language_info and create_language concurrently.
C14_CreationIsIdempotent ==
    /\ \A i \in 1..Len(registry) : Occurrences(registry[i].value) = 1
    /\ \A s \in Sessions :
          Completed(s) => Occurrences(language_info(<<"P", "o", "l", "i", "s", "h">>).code) = 1

\* a creation has completed while the other session was in the creation path
\* with the same name
C14_Witness ==
    \E s \in Sessions : \E i \in 1..Len(inflight) :
        /\ Completed(s)
        /\ inflight[i].session # s
        /\ inflight[i].kind = "create_language"

----------------------------------------------------------------------------
(* Properties of the Dashboard (SpecDashboard) *)

\* a snapshot of an empty history, or a response that lacks some of its fields
EmptyOrMissing(data) ==
    /\ data.language_distribution \in {None, Some(<<>>)}
    /\ data.total_searches \in {None, Some(0)}
    /\ data.search_trend \in {None, Some(<<>>)}
    /\ data.common_search_terms \in {None, Some(<<>>)}
    /\ data.concept_lookup_percentage \in {None, Some(0)}
    /\ data.most_viewed_concepts \in {None, Some(<<>>)}

\* C18: given the snapshot of an empty history, or a response with missing
\* fields, the dashboard ends in the data view with total 0 and empty chart
\* data, never in the error view or the 'failed to load' view.
C18_EmptyHistoryShowsData ==
    [][\A i \in 1..Len(inflight) : \A data \in MetricsResponses :
          \A k \in (IF inflight[i].kind = "metrics" THEN {inflight[i].dashboard} ELSE {}) :
              (Dashboard_fetchData_then(i, data) /\ EmptyOrMissing(data))
                  => /\ DashboardView(dashboard'[k]) = "data"
                     /\ TotalSearchesShown(dashboard'[k]) = Some(0)
                     /\ languageData(dashboard'[k]) = <<>>
                     /\ searchTrendData(dashboard'[k]) = <<>>
                     /\ commonTermsData(dashboard'[k]) = <<>>
                     /\ conceptData(dashboard'[k]) = <<>>]_vars

----------------------------------------------------------------------------
(* Properties of the Synonym Expander (SpecExpander) *)

\* the synonym list a session has been given for the key, if any
Given(s, key) ==
    /\ expander.requests[s] # None
    /\ expander.requests[s][1].key = key
    /\ expander.requests[s][1].state = "ready"

\* C19: concurrent expansions for the same key share one in-flight inference:
\* no key ever has two upstream inference calls in flight, and every synonym
\* list a session is given is the list memoized for the key, so that within the
\* memoization window the two sessions are given the same list.
C19_OneInferencePerKey ==
    /\ [](\A key \in ExpandKeys : expander.running[key] <= 1)
    /\ [][\A key \in ExpandKeys : \A s \in ExpanderSessions :
             (~Given(s, key) /\ Given(s, key)')
                 => expander'.memo[key] = Some(expander'.requests[s][1].synonyms)]_vars

\* both sessions wait for the same key while one inference is in flight
C19_Witness ==
    \E key \in ExpandKeys :
        /\ expander.running[key] = 1
        /\ \A s \in ExpanderSessions :
              /\ expander.requests[s] # None
              /\ expander.requests[s][1].key = key
              /\ expander.requests[s][1].state = "waiting"

----------------------------------------------------------------------------
(* Properties of the concept tables (SpecTable) *)

\* the rows are in the order of the ranking: Standard with an exact name match,
\* then Standard by descending score, then Non-Standard by descending score,
\* equal scores by ascending concept_id
InRankingOrder(rows) ==
    \A i, j \in 1..Len(rows) :
        i < j => \/ Tier(rows[i]) < Tier(rows[j])
                 \/ /\ Tier(rows[i]) = Tier(rows[j])
                    /\ \/ rows[i].score > rows[j].score
                       \/ /\ rows[i].score = rows[j].score
                          /\ rows[i].concept_id < rows[j].concept_id

\* C20 as stated: the rows returned by resolve are in ranking order and the
\* result table displays them in that order.
C20_TableShowsRankingOrder ==
    /\ InRankingOrder(conceptTable)
    /\ InRankingOrder(StepTableResults_rows(conceptTable))
    /\ InRankingOrder(ConceptTable_rows(conceptTable, sorting))

\* C20, amended: the rows returned by resolve are in ranking order;
\* StepTableResults displays them in that order, and ConceptTable does as long as
\* the user has not sorted it by a column.
C20_TableShowsRankingOrderUnlessSorted ==
    /\ InRankingOrder(conceptTable)
    /\ StepTableResults_rows(conceptTable) = conceptTable
    /\ InRankingOrder(StepTableResults_rows(conceptTable))
    /\ sorting = <<>> => /\ ConceptTable_rows(conceptTable, sorting) = conceptTable
                         /\ InRankingOrder(ConceptTable_rows(conceptTable, sorting))

\* all concepts of the vocabulary are on display and no column sorts them; the
\* first row is the exact Standard match, the last one is Non-Standard
C20_Witness ==
    /\ Len(conceptTable) = Cardinality(Vocabulary)
    /\ sorting = <<>>
    /\ Tier(conceptTable[1]) = 1
    /\ Tier(conceptTable[Len(conceptTable)]) = 3

----------------------------------------------------------------------------
(* Properties of overlapping requests (SpecOverlap) *)

\* the candidate list on display is a response to the search for the term
ResultsOf(term) ==
    /\ error = None
    /\ Len(searchResults) > 0
    /\ \A k \in 1..Len(searchResults) : searchResults[k].query = term

\* C23: the response to an earlier search that arrives after the most recently
\* submitted search (the one for lastSearchTerm) has succeeded never replaces
\* the candidate list of that later search.
C23_LastSearchWins ==
    [][\A i \in 1..Len(inflight) : \A n \in 0..MaxCandidates :
          (/\ handleSearch_then(i, n)
           /\ UNCHANGED <<wizardOnly, others>>
           /\ inflight[i].term # lastSearchTerm
           /\ inflight' = <<>>
           /\ ResultsOf(lastSearchTerm))
              => searchResults' = searchResults]_vars

\* C24: whenever at least one stage request is in flight the loading view is
\* displayed, so that neither candidates nor synonyms can be selected; the
\* completion of one of two overlapping searches does not end the loading
\* state of the other.
C24_LoadingWhilePending ==
    inflight # <<>> => View = "loading"

\* C25: the failure of an earlier search that arrives after the most recently
\* started search (the one for lastSearchTerm) has completed successfully, with
\* nothing else in flight, leaves error null.
C25_ErrorReflectsLatestRequest ==
    [][\A i \in 1..Len(inflight) : \A e \in ErrorShapes :
          (/\ handleSearch_catch(i, e)
           /\ UNCHANGED <<wizardOnly, others>>
           /\ inflight[i].term # lastSearchTerm
           /\ inflight' = <<>>
           /\ ResultsOf(lastSearchTerm))
              => error' = None]_vars

----------------------------------------------------------------------------
(* Properties of the Stepper inside the step wizard (SpecWizard) *)

\* C21: a click on a step indicator, on Next or on Back never advances the
\* Stepper's current step by more than one, and while the Stepper is displayed
\* a click on the indicator of any step up to the current one leads there
\* directly.
C21_NoStepIsSkipped ==
    /\ [](WizardView = "stepper" =>
             \A j \in 0..stepperStep[1] :
                 ENABLED (Stepper_handleStepClick(j) /\ stepperStep' = Some(j)))
    /\ [][(Wizard_ClickNext \/ Wizard_ClickBack \/ Wizard_ClickStep)
              => stepperStep'[1] <= stepperStep[1] + 1]_vars

\* the first step is displayed again after concepts were loaded: only the
\* Stepper's own navigation leads from the results step back to it
C21_Witness ==
    /\ WizardView = "stepper"
    /\ stepperStep = Some(0)
    /\ conceptTable # <<>>

StepInRange == stepperStep # None => stepperStep[1] \in 0..(NumSteps - 1)

\* C27: the Stepper's current step stays within 0 .. steps.length - 1; Next on
\* the last step changes neither the Stepper's step nor (through onStepChange)
\* MainContainer's, and Back cannot act on the first step.
C27_StepStaysInRange ==
    /\ [](StepInRange)
    /\ [](isFirstStep => ~ENABLED Wizard_ClickBack)
    /\ [][(Wizard_ClickNext /\ isLastStep)
              => UNCHANGED <<stepperStep, currentStep>>]_vars

\* the last step reached by Next alone, before any concept was loaded
C27_Witness ==
    /\ isLastStep
    /\ conceptTable = <<>>

\* C26: while the Stepper is displayed its own current step equals
\* MainContainer's currentStep.
C26_StepperFollowsCurrentStep ==
    WizardView = "stepper" => stepperStep = Some(currentStep)

\* the Stepper is displayed again after concepts were loaded and shows the
\* results step
C26_Witness ==
    /\ WizardView = "stepper"
    /\ conceptTable # <<>>
    /\ stepperStep = Some(NumSteps - 1)

----------------------------------------------------------------------------
(* Properties of the forced language dialog (SpecForced) *)

\* C22: languageSelected starts false and never returns to false; it becomes
\* true only in a step that selects one of the offered languages, which is
\* then i18n's language; a request to close the dialog leaves it displayed.
C22_DialogStaysUntilLanguageChosen ==
    /\ ForcedDialogShown
    /\ [][~ForcedDialogShown => ~ForcedDialogShown']_vars
    /\ [][(ForcedDialogShown /\ ~ForcedDialogShown')
              => \E option \in languageOptions :
                     /\ forcedLanguageSelector'.language = option
                     /\ forcedLanguageSelector'.selectedLanguage = Some(option)]_vars
    /\ [][Forced_RequestClose => ForcedDialogShown']_vars

\* a language other than the detected ones was chosen and a search was made
C22_Witness ==
    /\ forcedLanguageSelector.languageSelected
    /\ forcedLanguageSelector.language = "fr"
    /\ hasSearched

----------------------------------------------------------------------------
(* Properties of the create-language dialogs (SpecLanguages) *)

\* C28: whenever the three-step create-language dialog opens, it shows step 1
\* and its three fields are empty.
C28_WizardOpensEmpty ==
    [][\A s \in Sessions :
          (/\ page[s] = "ForcedLanguageSelector.tsx"
           /\ ~languageSelector[s].isCreatingLanguage
           /\ languageSelector'[s].isCreatingLanguage)
             => /\ createLanguageDialog'[s].step = 1
                /\ createLanguageDialog'[s].newLanguage = NewWizardDialog.newLanguage]_vars

\* the creation requests of session s in the sequence q of pending requests:
\* the /api/language_info call of handleSaveNewLanguage and the POST after it
Creations(s, q) ==
    { i \in 1..Len(q) : /\ q[i].kind \in {"language_info", "create_language"}
                          /\ q[i].session = s }

\* C29: a dialog of unnamed/part_003 has at most one creation request in
\* flight; while it shows its success it has none in flight and Save is not
\* actionable; a creation request is submitted only from a state with a name
\* of at least 2 characters, nothing pending and no success shown.
C29_OneCreationAtATime ==
    /\ [](\A s \in Sessions : page[s] = "part_003" =>
             /\ Cardinality(Creations(s, inflight)) <= 1
             /\ createLanguageDialog[s].isSuccess =>
                    /\ Creations(s, inflight) = {}
                    /\ ~ENABLED Infer_ClickSave)
    /\ [][\A s \in Sessions :
             (/\ page[s] = "part_003"
              /\ Cardinality(Creations(s, inflight')) >
                     Cardinality(Creations(s, inflight)))
                => /\ Len(createLanguageDialog[s].newLanguageName) >= 2
                   /\ ~createLanguageDialog[s].isLoading
                   /\ ~createLanguageDialog[s].isSuccess]_vars

\* the dialog shows its success while it is open
C29_Witness ==
    \E s \in Sessions :
        /\ page[s] = "part_003"
        /\ languageSelector[s].isCreatingLanguage
        /\ createLanguageDialog[s].isSuccess

====
